---- MODULE Spec2Model ----
(***************************************************************************)
(* A model of the text analysis pipeline of insight-forge                  *)
(* (src/src/app/actions.ts).  Strings are sequences of one-character       *)
(* strings; the i-th character of the source (0-based) is text[i+1].       *)
(***************************************************************************)
EXTENDS Integers, Sequences, FiniteSets, TLC

\* ------------------------------------------------------------------------
\* Bounds of the model
\* ------------------------------------------------------------------------

\* longest text handed to chunkText in SpecChunk
MaxLen == 6
\* largest maxChunkSize handed to chunkText in SpecChunk
MaxSize == 4
\* longest array in the documents handed to mergeAnalysisResults in SpecMerge
MaxArrLen == 2

\* ------------------------------------------------------------------------
\* Strings
\* ------------------------------------------------------------------------

Min2(a, b) == IF a < b THEN a ELSE b
Max2(a, b) == IF a > b THEN a ELSE b

\* the characters String.prototype.trim strips and the regular expression
\* class \s matches (the two sets are the same in ECMAScript), as far as the
\* alphabet of the model goes
IsWhitespace(c) == c \in {" ", "\t", "\n", "\r"}

\* String.prototype.trim
trim(s) ==
  LET n == Len(s)
  IN IF \A i \in 1..n : IsWhitespace(s[i]) THEN <<>>
     ELSE LET first == CHOOSE i \in 1..n :
                          /\ ~IsWhitespace(s[i])
                          /\ \A j \in 1..(i-1) : IsWhitespace(s[j])
              last == CHOOSE i \in 1..n :
                          /\ ~IsWhitespace(s[i])
                          /\ \A j \in (i+1)..n : IsWhitespace(s[j])
          IN SubSeq(s, first, last)

\* String.prototype.substring(start, end): both ends clamped to
\* [0, length], swapped when start > end; the characters [start, end)
substring(s, start, end) ==
  LET a == Min2(Max2(start, 0), Len(s))
      b == Min2(Max2(end, 0), Len(s))
  IN SubSeq(s, Min2(a, b) + 1, Max2(a, b))

\* whether pat occurs in s at 0-based index k
OccursAt(s, pat, k) ==
  /\ k >= 0
  /\ k + Len(pat) <= Len(s)
  /\ \A j \in 1..Len(pat) : s[k + j] = pat[j]

\* String.prototype.lastIndexOf(pat, fromIndex): the largest index
\* k <= fromIndex at which an occurrence of pat STARTS, or -1
lastIndexOf(s, pat, fromIndex) ==
  LET start == Min2(Max2(fromIndex, 0), Len(s) - Len(pat))
      hits == {k \in 0..start : OccursAt(s, pat, k)}
  IN IF hits = {} THEN -1
     ELSE CHOOSE k \in hits : \A m \in hits : m <= k

\* ------------------------------------------------------------------------
\* chunkText
\* ------------------------------------------------------------------------

\* line 64: the guard of the single-chunk return
fitsOneChunk(text, maxChunkSize) == Len(text) <= maxChunkSize

\* a variant of singleChunk that trims the text
SingleChunkTrimmed(text) == <<trim(text)>>
\* line 65: the single chunk is the text itself
singleChunk(text) == <<text>>

\* line 72
windowEnd(text, maxChunkSize, startIndex) ==
  Min2(startIndex + maxChunkSize, Len(text))

\* lines 76-78: the later of the last '.' and the last blank line that
\* start at or before endIndex
breakPointOf(text, maxChunkSize, startIndex) ==
  LET endIndex == windowEnd(text, maxChunkSize, startIndex)
      lastSentence == lastIndexOf(text, <<".">>, endIndex)
      lastParagraph == lastIndexOf(text, <<"\n", "\n">>, endIndex)
  IN Max2(lastSentence, lastParagraph)

\* line 80: breakPoint > startIndex + maxChunkSize * 0.7.  The product is a
\* double; for every maxChunkSize the model or the program uses (1..89,
\* 3000, 3500) the comparison with an integer breakPoint has the same
\* outcome as the exact one below.
breakAccepted(breakPoint, maxChunkSize, startIndex) ==
  10 * breakPoint > 10 * startIndex + 7 * maxChunkSize

\* lines 72-83: the end of the slice that starts at startIndex
chunkEnd(text, maxChunkSize, startIndex) ==
  LET endIndex == windowEnd(text, maxChunkSize, startIndex)
  IN IF endIndex < Len(text)
     THEN LET breakPoint == breakPointOf(text, maxChunkSize, startIndex)
          IN IF breakAccepted(breakPoint, maxChunkSize, startIndex)
             THEN breakPoint + 1
             ELSE endIndex
     ELSE endIndex

\* line 80-82: whether the slice that starts at startIndex ends at a break
\* point (and not at the raw window edge)
cutAtBreak(text, maxChunkSize, startIndex) ==
  /\ windowEnd(text, maxChunkSize, startIndex) < Len(text)
  /\ breakAccepted(breakPointOf(text, maxChunkSize, startIndex),
                   maxChunkSize, startIndex)

\* line 85: the chunk pushed for the slice [startIndex, endIndex)
chunkOf(text, startIndex, endIndex) ==
  trim(substring(text, startIndex, endIndex))

\* a variant of nextStart that goes on from the character the chunk ended
\* with
NextStartAtLastCharacter(endIndex) == endIndex - 1

\* a variant of nextStart that leaves a gap of one character
NextStartSkipsOne(endIndex) == endIndex + 1
\* line 86
nextStart(endIndex) == endIndex

\* lines 68-89: the chunks pushed from startIndex on
RECURSIVE chunkLoop(_, _, _)
chunkLoop(text, maxChunkSize, startIndex) ==
  IF startIndex < Len(text)
  THEN LET endIndex == chunkEnd(text, maxChunkSize, startIndex)
       IN <<chunkOf(text, startIndex, endIndex)>>
            \o chunkLoop(text, maxChunkSize, nextStart(endIndex))
  ELSE <<>>

\* lines 63-90
chunkText(text, maxChunkSize) ==
  IF fitsOneChunk(text, maxChunkSize)
  THEN singleChunk(text)
  ELSE chunkLoop(text, maxChunkSize, 0)

\* ------------------------------------------------------------------------
\* Values (what JSON.parse returns and the pipeline builds)
\* ------------------------------------------------------------------------

\* A value is a record of one shape: k its kind, n the number (or 1/0 for
\* true/false), s the characters of a string, e the elements of an array,
\* p the own named properties, in Object.keys order, of an object (or the
\* non-index properties of an array).  A hole of a sparse array has kind
\* "hole"; kind "function" stands for an inherited method; the numbers
\* Infinity and NaN have kinds "infinity" and "nan".
JV(k, n, s, e, p) == [k |-> k, n |-> n, s |-> s, e |-> e, p |-> p]
Undefined == JV("undefined", 0, <<>>, <<>>, <<>>)
Hole == JV("hole", 0, <<>>, <<>>, <<>>)
JFunction == JV("function", 0, <<>>, <<>>, <<>>)
JNull == JV("null", 0, <<>>, <<>>, <<>>)
JBool(b) == JV("boolean", IF b THEN 1 ELSE 0, <<>>, <<>>, <<>>)
JNum(x) == JV("number", x, <<>>, <<>>, <<>>)
JStr(str) == JV("string", 0, str, <<>>, <<>>)
JArr(elems) == JV("array", 0, <<>>, elems, <<>>)
JObj(props) == JV("object", 0, <<>>, <<>>, props)
Prop(key, val) == [key |-> key, val |-> val]

\* typeof v === 'object' && v !== null
isObjectNotNull(v) == v.k \in {"array", "object"}
\* Array.isArray
isArray(v) == v.k = "array"
\* ToBoolean: what !v negates
truthy(v) ==
  CASE v.k \in {"undefined", "hole", "null", "nan"} -> FALSE
    [] v.k = "boolean" -> v.n = 1
    [] v.k = "number" -> v.n # 0
    [] v.k = "string" -> Len(v.s) > 0
    [] OTHER -> TRUE

DigitChars == <<"0", "1", "2", "3", "4", "5", "6", "7", "8", "9">>
IsDigit(c) == \E d \in 1..10 : DigitChars[d] = c
DigitVal(c) == (CHOOSE d \in 1..10 : DigitChars[d] = c) - 1

RECURSIVE NatToStr(_)
NatToStr(n) ==
  IF n < 10 THEN <<DigitChars[n + 1]>>
  ELSE NatToStr(n \div 10) \o <<DigitChars[(n % 10) + 1]>>
\* Number.prototype.toString of an integer
numberToString(n) == IF n < 0 THEN <<"-">> \o NatToStr(-n) ELSE NatToStr(n)

RECURSIVE StrToNat(_)
StrToNat(str) ==
  IF str = <<>> THEN 0
  ELSE 10 * StrToNat(SubSeq(str, 1, Len(str) - 1)) + DigitVal(str[Len(str)])

\* a < b for two canonical decimal numerals
numeralLess(a, b) ==
  \/ Len(a) < Len(b)
  \/ /\ Len(a) = Len(b)
     /\ \E i \in 1..Len(a) :
          /\ DigitVal(a[i]) < DigitVal(b[i])
          /\ \A j \in 1..(i - 1) : a[j] = b[j]

\* a property name that is an array index: a canonical decimal numeral
\* below 2^32 - 1
isArrayIndex(key) ==
  /\ Len(key) >= 1
  /\ \A i \in 1..Len(key) : IsDigit(key[i])
  /\ Len(key) = 1 \/ key[1] # "0"
  /\ numeralLess(key, <<"4", "2", "9", "4", "9", "6", "7", "2", "9", "5">>)

\* names every object inherits from Object.prototype (a sample of them)
PrototypeKeys == {<<"c", "o", "n", "s", "t", "r", "u", "c", "t", "o", "r">>}

hasOwn(props, key) == \E i \in 1..Len(props) : props[i].key = key
ownValue(props, key) == props[CHOOSE i \in 1..Len(props) : props[i].key = key].val

\* obj[key] of an object or an array
Get(obj, key) ==
  IF obj.k = "array" /\ isArrayIndex(key)
  THEN IF StrToNat(key) < Len(obj.e) /\ obj.e[StrToNat(key) + 1].k # "hole"
       THEN obj.e[StrToNat(key) + 1]
       ELSE Undefined
  ELSE IF hasOwn(obj.p, key) THEN ownValue(obj.p, key)
  ELSE IF key \in PrototypeKeys THEN JFunction
  ELSE Undefined

\* the own properties after a new one is added: index keys come first, in
\* ascending order, the other keys follow in insertion order
insertProp(props, key, val) ==
  IF isArrayIndex(key)
  THEN LET before == SelectSeq(props, LAMBDA q :
                       isArrayIndex(q.key) /\ numeralLess(q.key, key))
           after == SelectSeq(props, LAMBDA q :
                       ~(isArrayIndex(q.key) /\ numeralLess(q.key, key)))
       IN before \o <<Prop(key, val)>> \o after
  ELSE Append(props, Prop(key, val))

setProp(props, key, val) ==
  IF hasOwn(props, key)
  THEN [i \in 1..Len(props) |->
          IF props[i].key = key THEN Prop(key, val) ELSE props[i]]
  ELSE insertProp(props, key, val)

\* obj[key] = val on an object or an array (an index past the end of an
\* array leaves holes)
Set(obj, key, val) ==
  IF obj.k = "array" /\ isArrayIndex(key)
  THEN LET idx == StrToNat(key)
           len == Max2(Len(obj.e), idx + 1)
       IN [obj EXCEPT !.e = [i \in 1..len |->
                               IF i = idx + 1 THEN val
                               ELSE IF i <= Len(obj.e) THEN obj.e[i]
                               ELSE Hole]]
  ELSE [obj EXCEPT !.p = setProp(obj.p, key, val)]

\* Object.keys
ownKeys(obj) ==
  LET present == SelectSeq([i \in 1..Len(obj.e) |-> i],
                           LAMBDA i : obj.e[i].k # "hole")
  IN [j \in 1..Len(present) |-> numberToString(present[j] - 1)]
       \o [j \in 1..Len(obj.p) |-> obj.p[j].key]

\* Object.values
ownValues(obj) ==
  SelectSeq(obj.e, LAMBDA x : x.k # "hole")
    \o [j \in 1..Len(obj.p) |-> obj.p[j].val]

\* [...arr]: a hole is read as undefined
spread(arr) ==
  [i \in 1..Len(arr.e) |-> IF arr.e[i].k = "hole" THEN Undefined ELSE arr.e[i]]

\* ------------------------------------------------------------------------
\* JSON.stringify
\* ------------------------------------------------------------------------

\* the concatenation of a sequence of sequences (halving keeps the
\* recursion shallow)
RECURSIVE Concat(_)
Concat(seqs) ==
  IF Len(seqs) = 0 THEN <<>>
  ELSE IF Len(seqs) = 1 THEN seqs[1]
  ELSE LET half == Len(seqs) \div 2
       IN Concat(SubSeq(seqs, 1, half)) \o Concat(SubSeq(seqs, half + 1, Len(seqs)))

\* Array.prototype.join
JoinWith(seqs, sep) ==
  Concat([k \in 1..(2 * Len(seqs) - 1) |->
            IF k % 2 = 1 THEN seqs[(k + 1) \div 2] ELSE sep])

\* the escape JSON.stringify writes for one character of a string
escapeChar(c) ==
  CASE c = "\"" -> <<"\\", "\"">>
    [] c = "\\" -> <<"\\", "\\">>
    [] c = "\n" -> <<"\\", "n">>
    [] c = "\t" -> <<"\\", "t">>
    [] c = "\r" -> <<"\\", "r">>
    [] OTHER -> <<c>>

quote(str) ==
  IF \A i \in 1..Len(str) : escapeChar(str[i]) = <<str[i]>>
  THEN <<"\"">> \o str \o <<"\"">>
  ELSE <<"\"">> \o Concat([i \in 1..Len(str) |-> escapeChar(str[i])]) \o <<"\"">>

\* what JSON.stringify returns for a value it does not serialize: the
\* value undefined, which is no string
NotSerialized == <<"undefined">>

serializable(v) == v.k \notin {"undefined", "hole", "function"}

RECURSIVE stringify(_)
stringify(v) ==
  CASE v.k \in {"null", "infinity", "nan"} -> <<"n", "u", "l", "l">>
    [] v.k = "boolean" ->
         IF v.n = 1 THEN <<"t", "r", "u", "e">> ELSE <<"f", "a", "l", "s", "e">>
    [] v.k = "number" -> numberToString(v.n)
    [] v.k = "string" -> quote(v.s)
    [] v.k = "array" ->
         <<"[">>
           \o JoinWith([i \in 1..Len(v.e) |->
                          IF serializable(v.e[i]) THEN stringify(v.e[i])
                          ELSE <<"n", "u", "l", "l">>], <<",">>)
           \o <<"]">>
    [] v.k = "object" ->
         LET kept == SelectSeq(v.p, LAMBDA q : serializable(q.val))
         IN <<"{">>
              \o JoinWith([i \in 1..Len(kept) |->
                             quote(kept[i].key) \o <<":">> \o stringify(kept[i].val)],
                          <<",">>)
              \o <<"}">>
    [] OTHER -> NotSerialized

\* ------------------------------------------------------------------------
\* mergeAnalysisResults
\* ------------------------------------------------------------------------

\* line 247: arr.findIndex(i => JSON.stringify(i) === JSON.stringify(item))
findIndexSameJson(arr, index) ==
  CHOOSE j \in 1..Len(arr) :
    /\ stringify(arr[j]) = stringify(arr[index])
    /\ \A m \in 1..(j - 1) : stringify(arr[m]) # stringify(arr[index])

\* a variant of dedupe that compares an element with its predecessor only
DedupeAgainstPrevious(combined) ==
  LET keep == SelectSeq([i \in 1..Len(combined) |-> i],
                        LAMBDA i : i = 1 \/ stringify(combined[i - 1]) # stringify(combined[i]))
  IN [j \in 1..Len(keep) |-> combined[keep[j]]]
\* lines 246-248: combined.filter(...)
dedupe(combined) ==
  LET keep == SelectSeq([i \in 1..Len(combined) |-> i],
                        LAMBDA i : findIndexSameJson(combined, i) = i)
  IN [j \in 1..Len(keep) |-> combined[keep[j]]]

\* lines 245-248
mergeArrays(targetArr, sourceArr) ==
  JArr(dedupe(spread(targetArr) \o spread(sourceArr)))

\* line 254: !target[key]
targetFalsy(target, key) == ~truthy(Get(target, key))

RECURSIVE mergeAnalysisResults(_, _)
RECURSIVE mergeFrom(_, _, _)

\* lines 243-257: the forEach callback for one key; the target afterwards
mergeKey(target, source, key) ==
  LET sv == Get(source, key)
      tv == Get(target, key)
  IN IF isArray(sv) /\ isArray(tv)
     THEN Set(target, key, mergeArrays(tv, sv))
     ELSE IF isObjectNotNull(sv) /\ isObjectNotNull(tv)
     THEN Set(target, key, mergeAnalysisResults(tv, sv))
     ELSE IF targetFalsy(target, key)
     THEN Set(target, key, sv)
     ELSE target

\* line 242: the callback applied to keys[1], keys[2], ... in order
mergeFrom(target, source, keys) ==
  IF keys = <<>> THEN target
  ELSE mergeFrom(mergeKey(target, source, Head(keys)), source, Tail(keys))

\* lines 241-259: the target after the call
mergeAnalysisResults(target, source) ==
  mergeFrom(target, source, ownKeys(source))

\* ------------------------------------------------------------------------
\* detectContentType
\* ------------------------------------------------------------------------

UpperChars == <<"A", "B", "C", "D", "E", "F", "G", "H", "I", "J", "K", "L", "M",
                "N", "O", "P", "Q", "R", "S", "T", "U", "V", "W", "X", "Y", "Z">>
LowerChars == <<"a", "b", "c", "d", "e", "f", "g", "h", "i", "j", "k", "l", "m",
                "n", "o", "p", "q", "r", "s", "t", "u", "v", "w", "x", "y", "z">>
IsUpper(c) == c \in {UpperChars[i] : i \in 1..26}
lowerChar(c) ==
  IF IsUpper(c) THEN LowerChars[CHOOSE i \in 1..26 : UpperChars[i] = c] ELSE c
\* String.prototype.toLowerCase
toLowerCase(s) == <<>> \o [i \in 1..Len(s) |-> lowerChar(s[i])]

\* String.prototype.includes
includes(s, pat) == \E k \in 0..(Len(s) - Len(pat)) : OccursAt(s, pat, k)

\* s.split(c).length for a one-character separator c
splitLength(s, c) == Cardinality({i \in 1..Len(s) : s[i] = c}) + 1

\* whether the n characters of s from 0-based index k on are all digits
digitsAt(s, k, n) ==
  /\ k + n <= Len(s)
  /\ \A j \in 1..n : s[k + j] \in {DigitChars[d] : d \in 1..10}
charAt(s, k, c) == k < Len(s) /\ s[k + 1] = c

\* \d{4}-\d{2}-\d{2} matched at 0-based index k
isoDateAt(s, k) ==
  /\ digitsAt(s, k, 4)
  /\ charAt(s, k + 4, "-")
  /\ digitsAt(s, k + 5, 2)
  /\ charAt(s, k + 7, "-")
  /\ digitsAt(s, k + 8, 2)

\* \d{1,2}\/\d{1,2}\/\d{4} matched at 0-based index k with a day of a
\* digits and a month of b digits
slashDateAtWith(s, k, a, b) ==
  /\ digitsAt(s, k, a)
  /\ charAt(s, k + a, "/")
  /\ digitsAt(s, k + a + 1, b)
  /\ charAt(s, k + a + 1 + b, "/")
  /\ digitsAt(s, k + a + b + 2, 4)
slashDateAt(s, k) == \E a \in 1..2, b \in 1..2 : slashDateAtWith(s, k, a, b)

\* line 108: the regular expression matches somewhere
matchesDate(s) ==
  \E k \in 0..(Len(s) - 1) : isoDateAt(s, k) \/ slashDateAt(s, k)

L_AcademicPaper == <<"A", "c", "a", "d", "e", "m", "i", "c", " ", "P", "a", "p", "e", "r">>
L_Recipe == <<"R", "e", "c", "i", "p", "e">>
L_Resume == <<"R", "e", "s", "u", "m", "e", "/", "C", "V">>
L_Credentials == <<"C", "r", "e", "d", "e", "n", "t", "i", "a", "l", "s", " ", "L", "i", "s", "t">>
L_DateBased == <<"D", "a", "t", "e", "-", "b", "a", "s", "e", "d", " ", "C", "o", "n", "t", "e", "n", "t">>
L_MeetingNotes == <<"M", "e", "e", "t", "i", "n", "g", " ", "N", "o", "t", "e", "s">>
L_StructuredData == <<"S", "t", "r", "u", "c", "t", "u", "r", "e", "d", " ", "D", "a", "t", "a">>
L_Narrative == <<"N", "a", "r", "r", "a", "t", "i", "v", "e", "/", "S", "t", "o", "r", "y">>
L_Product == <<"P", "r", "o", "d", "u", "c", "t", " ", "I", "n", "f", "o", "r", "m", "a", "t", "i", "o", "n">>
L_General == <<"G", "e", "n", "e", "r", "a", "l", " ", "T", "e", "x", "t">>

\* line 96
isAcademicPaper(text, lowerText) ==
  /\ includes(lowerText, <<"a", "b", "s", "t", "r", "a", "c", "t">>)
  /\ includes(lowerText, <<"i", "n", "t", "r", "o", "d", "u", "c", "t", "i", "o", "n">>)
  /\ includes(lowerText, <<"c", "o", "n", "c", "l", "u", "s", "i", "o", "n">>)
\* line 99
isRecipe(text, lowerText) ==
  /\ includes(lowerText, <<"i", "n", "g", "r", "e", "d", "i", "e", "n", "t", "s">>)
  /\ \/ includes(lowerText, <<"r", "e", "c", "i", "p", "e">>)
     \/ includes(lowerText, <<"i", "n", "s", "t", "r", "u", "c", "t", "i", "o", "n", "s">>)
\* line 102
isResume(text, lowerText) ==
  /\ includes(lowerText, <<"e", "x", "p", "e", "r", "i", "e", "n", "c", "e">>)
  /\ includes(lowerText, <<"e", "d", "u", "c", "a", "t", "i", "o", "n">>)
  /\ includes(lowerText, <<"s", "k", "i", "l", "l", "s">>)
\* line 105
isCredentials(text, lowerText) ==
  /\ \/ includes(lowerText, <<"e", "m", "a", "i", "l">>)
     \/ includes(lowerText, <<"@">>)
  /\ includes(lowerText, <<"p", "a", "s", "s", "w", "o", "r", "d">>)
\* line 108
isDateBased(text, lowerText) == matchesDate(lowerText)
\* line 111
isMeetingNotes(text, lowerText) ==
  /\ includes(lowerText, <<"m", "e", "e", "t", "i", "n", "g">>)
  /\ \/ includes(lowerText, <<"a", "g", "e", "n", "d", "a">>)
     \/ includes(lowerText, <<"m", "i", "n", "u", "t", "e", "s">>)
\* line 114
isStructuredData(text, lowerText) ==
  /\ splitLength(text, "\n") > 10
  /\ includes(text, <<",">>)
\* line 117
isNarrative(text, lowerText) ==
  \/ includes(lowerText, <<"s", "t", "o", "r", "y">>)
  \/ includes(lowerText, <<"c", "h", "a", "p", "t", "e", "r">>)
  \/ splitLength(text, ".") > 20
\* line 120
isProduct(text, lowerText) ==
  /\ includes(lowerText, <<"p", "r", "o", "d", "u", "c", "t">>)
  /\ \/ includes(lowerText, <<"p", "r", "i", "c", "e">>)
     \/ includes(lowerText, <<"f", "e", "a", "t", "u", "r", "e">>)

\* a variant of detectContentType that tests the Recipe rule first
DetectRecipeBeforeAcademic(text) ==
  LET lowerText == toLowerCase(text)
  IN IF isRecipe(text, lowerText) THEN L_Recipe
     ELSE IF isAcademicPaper(text, lowerText) THEN L_AcademicPaper
     ELSE IF isResume(text, lowerText) THEN L_Resume
     ELSE IF isCredentials(text, lowerText) THEN L_Credentials
     ELSE IF isDateBased(text, lowerText) THEN L_DateBased
     ELSE IF isMeetingNotes(text, lowerText) THEN L_MeetingNotes
     ELSE IF isStructuredData(text, lowerText) THEN L_StructuredData
     ELSE IF isNarrative(text, lowerText) THEN L_Narrative
     ELSE IF isProduct(text, lowerText) THEN L_Product
     ELSE L_General
\* lines 93-125
detectContentType(text) ==
  LET lowerText == toLowerCase(text)
  IN IF isAcademicPaper(text, lowerText) THEN L_AcademicPaper
     ELSE IF isRecipe(text, lowerText) THEN L_Recipe
     ELSE IF isResume(text, lowerText) THEN L_Resume
     ELSE IF isCredentials(text, lowerText) THEN L_Credentials
     ELSE IF isDateBased(text, lowerText) THEN L_DateBased
     ELSE IF isMeetingNotes(text, lowerText) THEN L_MeetingNotes
     ELSE IF isStructuredData(text, lowerText) THEN L_StructuredData
     ELSE IF isNarrative(text, lowerText) THEN L_Narrative
     ELSE IF isProduct(text, lowerText) THEN L_Product
     ELSE L_General

\* ------------------------------------------------------------------------
\* Scanning a string
\* ------------------------------------------------------------------------

\* the first 1-based position >= from whose character satisfies P, or
\* Len(s) + 1
FirstFrom(s, from, P(_)) ==
  IF \E j \in from..Len(s) : P(s[j])
  THEN CHOOSE j \in from..Len(s) : P(s[j]) /\ \A m \in from..(j - 1) : ~P(s[m])
  ELSE Len(s) + 1

\* the last 1-based position <= upTo whose character satisfies P, or 0
LastUpTo(s, upTo, P(_)) ==
  IF \E j \in 1..upTo : P(s[j])
  THEN CHOOSE j \in 1..upTo : P(s[j]) /\ \A m \in (j + 1)..upTo : ~P(s[m])
  ELSE 0

\* the elements of a finite set of integers in ascending order
SortedSeq(S) ==
  [k \in 1..Cardinality(S) |->
     CHOOSE x \in S : Cardinality({y \in S : y < x}) = k - 1]

\* s.split(/Sep+/).filter(piece => piece.length > 0): the maximal runs of
\* characters that do not satisfy Sep
splitRuns(s, Sep(_)) ==
  LET NotSep(c) == ~Sep(c)
      starts == SortedSeq({j \in 1..Len(s) :
                             NotSep(s[j]) /\ (j = 1 \/ Sep(s[j - 1]))})
  IN [k \in 1..Len(starts) |->
        SubSeq(s, starts[k], FirstFrom(s, starts[k], Sep) - 1)]

IsNotWhitespace(c) == ~IsWhitespace(c)
\* [.!?]
IsTerminator(c) == c \in {".", "!", "?"}
\* \w
IsWordChar(c) ==
  \/ c \in {DigitChars[d] : d \in 1..10}
  \/ c \in {UpperChars[d] : d \in 1..26}
  \/ c \in {LowerChars[d] : d \in 1..26}
  \/ c = "_"
\* [\w.-]
IsNameChar(c) == IsWordChar(c) \/ c \in {".", "-"}
\* [\w\/.-]
IsPathChar(c) == IsNameChar(c) \/ c = "/"
\* [a-z] under the i flag
IsLetter(c) ==
  \/ c \in {UpperChars[d] : d \in 1..26}
  \/ c \in {LowerChars[d] : d \in 1..26}
IsDigitChar(c) == c \in {DigitChars[d] : d \in 1..10}
IsNewline(c) == c = "\n"

\* text.split(/\s+/).filter(w => w.length > 0)
splitWords(text) == splitRuns(text, IsWhitespace)

\* text.split(/[.!?]+/).filter(s => s.trim().length > 0)
splitSentences(text) ==
  SelectSeq(splitRuns(text, IsTerminator), LAMBDA piece : trim(piece) # <<>>)

\* the matches of /\n\s*\n/ from left to right, as <<first, last>> 1-based
\* positions: in a maximal run of whitespace with two or more newlines, the
\* characters from its first newline to its last one
paragraphBreaks(text) ==
  LET firstInRun(j) ==
        /\ text[j] = "\n"
        /\ \A m \in (LastUpTo(text, j, IsNotWhitespace) + 1)..(j - 1) : text[m] # "\n"
      lastNewline(j) ==
        LastUpTo(text, FirstFrom(text, j, IsNotWhitespace) - 1, IsNewline)
      starts == SortedSeq({j \in 1..Len(text) : firstInRun(j) /\ lastNewline(j) > j})
  IN [k \in 1..Len(starts) |-> <<starts[k], lastNewline(starts[k])>>]

\* text.split(/\n\s*\n/).filter(p => p.trim().length > 0)
splitParagraphs(text) ==
  LET breaks == paragraphBreaks(text)
      pieces == [k \in 1..(Len(breaks) + 1) |->
                   SubSeq(text,
                          IF k = 1 THEN 1 ELSE breaks[k - 1][2] + 1,
                          IF k = Len(breaks) + 1 THEN Len(text) ELSE breaks[k][1] - 1)]
  IN SelectSeq(pieces, LAMBDA piece : trim(piece) # <<>>)

\* s.split(/\s+/).length: empty pieces at either end count
splitWhitespaceLength(s) ==
  IF s = <<>> THEN 1
  ELSE IF trim(s) = <<>> THEN 2
  ELSE Len(splitWords(s))
         + (IF IsWhitespace(s[1]) THEN 1 ELSE 0)
         + (IF IsWhitespace(s[Len(s)]) THEN 1 ELSE 0)

\* the matches of a regular expression with the g flag, from 0-based index
\* from on: MatchEnd(k) is the 0-based end of the match that starts at k, or
\* -1 when none starts there
RECURSIVE matchesFrom(_, _, _)
matchesFrom(s, from, ends) ==
  IF \E k \in from..(Len(s) - 1) : ends[k + 1] >= 0
  THEN LET k == CHOOSE k \in from..(Len(s) - 1) :
                  ends[k + 1] >= 0 /\ \A m \in from..(k - 1) : ends[m + 1] < 0
       IN <<substring(s, k, ends[k + 1])>>
            \o matchesFrom(s, Max2(ends[k + 1], k + 1), ends)
  ELSE <<>>

\* /\d{1,2}\/\d{1,2}\/\d{4}|\d{4}-\d{2}-\d{2}/ at k
dateEndAt(s, k) ==
  IF slashDateAt(s, k)
  THEN LET ab == CHOOSE ab \in {<<2, 2>>, <<2, 1>>, <<1, 2>>, <<1, 1>>} :
                   slashDateAtWith(s, k, ab[1], ab[2])
       IN k + ab[1] + ab[2] + 6
  ELSE IF isoDateAt(s, k) THEN k + 10
  ELSE -1
\* line 270
matchDates(text) ==
  matchesFrom(text, 0, <<>> \o [j \in 1..Len(text) |-> dateEndAt(text, j - 1)])

\* the 0-based end of the maximal run of characters satisfying P from k on
runEnd(s, k, P(_)) ==
  LET NotP(c) == ~P(c) IN FirstFrom(s, k + 1, NotP) - 1

\* (?:,\d{3})* from k on
RECURSIVE groupsEnd(_, _)
groupsEnd(s, k) ==
  IF charAt(s, k, ",") /\ digitsAt(s, k + 1, 3) THEN groupsEnd(s, k + 4) ELSE k

\* /\d+(?:,\d{3})*(?:\.\d+)?/ at k
numberEndAt(s, k) ==
  IF ~digitsAt(s, k, 1) THEN -1
  ELSE LET g == groupsEnd(s, runEnd(s, k, IsDigitChar))
       IN IF charAt(s, g, ".") /\ digitsAt(s, g + 1, 1)
          THEN runEnd(s, g + 1, IsDigitChar)
          ELSE g
\* line 271
matchNumbers(text) ==
  matchesFrom(text, 0, <<>> \o [j \in 1..Len(text) |-> numberEndAt(text, j - 1)])

\* [\w.-]+\.\w+ from k on: the name characters run on to h; the match
\* gives back characters to the last '.' that has a name character before
\* it and a word character after it, and ends with the word characters there
domainEndAt(s, k) ==
  LET h == runEnd(s, k, IsNameChar)
      dots == {d \in (k + 1)..(h - 1) :
                 s[d + 1] = "." /\ d + 1 < Len(s) /\ IsWordChar(s[d + 2])}
  IN IF dots = {} THEN -1
     ELSE runEnd(s, (CHOOSE d \in dots : \A m \in dots : m <= d) + 1, IsWordChar)

\* /[\w.-]+@[\w.-]+\.\w+/ at k
emailEndAt(s, k) ==
  IF k < Len(s) /\ IsNameChar(s[k + 1])
  THEN LET at == runEnd(s, k, IsNameChar)
       IN IF charAt(s, at, "@") THEN domainEndAt(s, at + 1) ELSE -1
  ELSE -1
\* line 268
matchEmails(text) ==
  matchesFrom(text, 0, <<>> \o [j \in 1..Len(text) |-> emailEndAt(text, j - 1)])

\* [\w.-]+\.[a-z]{2,}[\w\/.-]* from k on
hostEndAt(s, k) ==
  LET h == runEnd(s, k, IsNameChar)
      dots == {d \in (k + 1)..(h - 1) :
                 /\ s[d + 1] = "."
                 /\ d + 2 < Len(s)
                 /\ IsLetter(s[d + 2])
                 /\ IsLetter(s[d + 3])}
  IN IF dots = {} THEN -1
     ELSE runEnd(s, runEnd(s, (CHOOSE d \in dots : \A m \in dots : m <= d) + 1,
                           IsLetter),
                 IsPathChar)

\* /https?:\/\/[\w.-]+\.[a-z]{2,}[\w\/.-]*/i at k
urlEndAt(s, k) ==
  LET low == toLowerCase(substring(s, k, k + 8))
      scheme == IF SubSeq(low, 1, Min2(8, Len(low))) = <<"h", "t", "t", "p", "s", ":", "/", "/">> THEN 8
                ELSE IF SubSeq(low, 1, Min2(7, Len(low))) = <<"h", "t", "t", "p", ":", "/", "/">> THEN 7
                ELSE 0
  IN IF scheme = 0 THEN -1 ELSE hostEndAt(s, k + scheme)
\* line 269
matchUrls(text) ==
  matchesFrom(text, 0, <<>> \o [j \in 1..Len(text) |-> urlEndAt(text, j - 1)])

\* ------------------------------------------------------------------------
\* fallbackAnalysis
\* ------------------------------------------------------------------------

\* word.toLowerCase().replace(/[^\w]/g, '')
cleanWord(word) == SelectSeq(toLowerCase(word), IsWordChar)

\* lines 274-280: the own properties of wordFreq, in Object.entries order:
\* one per distinct cleaned word longer than 3 characters with the number
\* of its occurrences, the array-index names first in ascending order, the
\* others in the order of their first occurrence (no word of the model's
\* texts names a property every object inherits)
countWords(words) ==
  LET clean == [k \in 1..Len(words) |-> cleanWord(words[k])]
      firsts == SelectSeq([k \in 1..Len(words) |-> k],
                          LAMBDA k : /\ Len(clean[k]) > 3
                                     /\ \A m \in 1..(k - 1) : clean[m] # clean[k])
      entry(k) == Prop(clean[k],
                       JNum(Cardinality({m \in 1..Len(words) : clean[m] = clean[k]})))
      indexFirsts == SelectSeq(firsts, LAMBDA k : isArrayIndex(clean[k]))
      nameFirsts == SelectSeq(firsts, LAMBDA k : ~isArrayIndex(clean[k]))
      rank(a) == Cardinality({b \in 1..Len(indexFirsts) :
                    StrToNat(clean[indexFirsts[b]]) < StrToNat(clean[indexFirsts[a]])}) + 1
      indexSorted == [r \in 1..Len(indexFirsts) |->
                        indexFirsts[CHOOSE a \in 1..Len(indexFirsts) : rank(a) = r]]
  IN [r \in 1..Len(indexSorted) |-> entry(indexSorted[r])]
       \o [r \in 1..Len(nameFirsts) |-> entry(nameFirsts[r])]

\* lines 282-285: the entries sorted by descending count (the sort is
\* stable), the first ten, each as {word, count}
topWordsOf(props) ==
  LET n == Len(props)
      rank(a) == Cardinality({b \in 1..n : props[b].val.n > props[a].val.n})
                   + Cardinality({b \in 1..(a - 1) : props[b].val.n = props[a].val.n})
                   + 1
      sorted == [r \in 1..n |-> props[CHOOSE a \in 1..n : rank(a) = r]]
  IN [r \in 1..Min2(10, n) |->
        JObj(<<Prop(<<"w", "o", "r", "d">>, JStr(sorted[r].key)),
               Prop(<<"c", "o", "u", "n", "t">>, sorted[r].val)>>)]

JInfinity == JV("infinity", 0, <<>>, <<>>, <<>>)
JNaN == JV("nan", 0, <<>>, <<>>, <<>>)
\* Math.round(a / b) of two counts
roundedQuotient(a, b) ==
  IF b = 0 THEN (IF a = 0 THEN JNaN ELSE JInfinity)
  ELSE JNum((2 * a + b) \div (2 * b))
\* Math.ceil(a / 200)
ceilQuotient200(a) == (a + 199) \div 200

\* lines 304-308
paragraphEntry(para, index) ==
  JObj(<<Prop(<<"i", "n", "d", "e", "x">>, JNum(index)),
         Prop(<<"w", "o", "r", "d", "_", "c", "o", "u", "n", "t">>, JNum(splitWhitespaceLength(para))),
         Prop(<<"p", "r", "e", "v", "i", "e", "w">>,
              JStr(substring(para, 0, 100)
                     \o (IF Len(para) > 100 THEN <<".", ".", ".">> ELSE <<>>)))>>)

strings(seq) == JArr([k \in 1..Len(seq) |-> JStr(seq[k])])

S_fallback_rule_based == <<"f", "a", "l", "l", "b", "a", "c", "k", "_", "r", "u", "l", "e", "_", "b", "a", "s", "e", "d">>
S_metadata == <<"m", "e", "t", "a", "d", "a", "t", "a">>
S_analysis_method == <<"a", "n", "a", "l", "y", "s", "i", "s", "_", "m", "e", "t", "h", "o", "d">>
S_content_type_detected == <<"c", "o", "n", "t", "e", "n", "t", "_", "t", "y", "p", "e", "_", "d", "e", "t", "e", "c", "t", "e", "d">>
S_content_analysis == <<"c", "o", "n", "t", "e", "n", "t", "_", "a", "n", "a", "l", "y", "s", "i", "s">>
S_word_count == <<"w", "o", "r", "d", "_", "c", "o", "u", "n", "t">>

\* lines 262-316; timestamp is what new Date().toISOString() returns
fallbackAnalysis(text, contentType, timestamp) ==
  LET words == splitWords(text)
      sentences == splitSentences(text)
      paragraphs == splitParagraphs(text)
      emails == IF \E j \in 1..Len(text) : text[j] = "@"
                THEN matchEmails(text) ELSE <<>>
      urls == matchUrls(text)
      dates == matchDates(text)
      numbers == matchNumbers(text)
      topWords == topWordsOf(countWords(words))
  IN JObj(<<
       Prop(<<"d", "o", "c", "u", "m", "e", "n", "t", "_", "t", "y", "p", "e">>, JStr(contentType)),
       Prop(S_content_analysis, JObj(<<
         Prop(S_word_count, JNum(Len(words))),
         Prop(<<"s", "e", "n", "t", "e", "n", "c", "e", "_", "c", "o", "u", "n", "t">>, JNum(Len(sentences))),
         Prop(<<"p", "a", "r", "a", "g", "r", "a", "p", "h", "_", "c", "o", "u", "n", "t">>, JNum(Len(paragraphs))),
         Prop(<<"a", "v", "e", "r", "a", "g", "e", "_", "s", "e", "n", "t", "e", "n", "c", "e", "_", "l", "e", "n", "g", "t", "h">>,
              roundedQuotient(Len(words), Len(sentences))),
         Prop(<<"r", "e", "a", "d", "i", "n", "g", "_", "t", "i", "m", "e", "_", "m", "i", "n", "u", "t", "e", "s">>, JNum(ceilQuotient200(Len(words))))>>)),
       Prop(<<"e", "x", "t", "r", "a", "c", "t", "e", "d", "_", "e", "n", "t", "i", "t", "i", "e", "s">>, JObj(<<
         Prop(<<"e", "m", "a", "i", "l", "s">>, strings(emails)),
         Prop(<<"u", "r", "l", "s">>, strings(urls)),
         Prop(<<"d", "a", "t", "e", "s">>, strings(dates)),
         Prop(<<"n", "u", "m", "b", "e", "r", "s">>, strings(SubSeq(numbers, 1, Min2(10, Len(numbers)))))>>)),
       Prop(<<"k", "e", "y", "_", "t", "e", "r", "m", "s">>, JArr(topWords)),
       Prop(<<"s", "t", "r", "u", "c", "t", "u", "r", "e">>, JObj(<<
         Prop(<<"p", "a", "r", "a", "g", "r", "a", "p", "h", "s">>,
              JArr([k \in 1..Len(paragraphs) |-> paragraphEntry(paragraphs[k], k)]))>>)),
       Prop(S_metadata, JObj(<<
         Prop(S_analysis_method, JStr(S_fallback_rule_based)),
         Prop(<<"p", "r", "o", "c", "e", "s", "s", "i", "n", "g", "_", "t", "i", "m", "e", "s", "t", "a", "m", "p">>, JStr(timestamp)),
         Prop(S_content_type_detected, JStr(contentType))>>))>>)

\* ------------------------------------------------------------------------
\* calculateConfidence
\* ------------------------------------------------------------------------

\* what a call evaluates to when it throws
Threw == JV("throw", 0, <<>>, <<>>, <<>>)

isNullish(v) == v.k \in {"undefined", "hole", "null"}

\* v[key] where v is not null or undefined: a property of an object or an
\* array; the names the model reads are no properties of a primitive
member(v, key) == IF isObjectNotNull(v) THEN Get(v, key) ELSE Undefined

\* am.includes('fallback'), am not null or undefined: a string searches its
\* characters, an array its elements, anything else has no such method
includesFallback(am) ==
  CASE am.k = "string" -> JBool(includes(am.s, <<"f", "a", "l", "l", "b", "a", "c", "k">>))
    [] am.k = "array" ->
         JBool(\E k \in 1..Len(am.e) : am.e[k] = JStr(<<"f", "a", "l", "l", "b", "a", "c", "k">>))
    [] OTHER -> Threw

\* line 343: data.metadata?.analysis_method?.includes('fallback')
fallbackMarked(data) ==
  LET metadata == member(data, S_metadata)
  IN IF isNullish(metadata) THEN Undefined
     ELSE LET am == member(metadata, S_analysis_method)
          IN IF isNullish(am) THEN Undefined ELSE includesFallback(am)

\* lines 322-324, in hundredths
keyCountBonus(data) ==
  LET fieldCount == Len(ownKeys(data))
  IN (IF fieldCount > 5 THEN 10 ELSE 0) + (IF fieldCount > 10 THEN 10 ELSE 0)

\* lines 327-333, in hundredths
structureBonus(data) ==
  LET values == ownValues(data)
      hasArrays == \E k \in 1..Len(values) : isArray(values[k])
      hasObjects == \E k \in 1..Len(values) : values[k].k = "object"
  IN (IF hasArrays THEN 10 ELSE 0) + (IF hasObjects THEN 10 ELSE 0)

\* lines 336-340, in hundredths: the ratio is length / textLength, which is
\* Infinity for an empty text
ratioBonus(data, originalText) ==
  LET length == Len(stringify(data))
      textLength == Len(originalText)
  IN (IF textLength = 0 \/ 10 * length > textLength THEN 10 ELSE 0)
       + (IF textLength = 0 \/ 10 * length > 3 * textLength THEN 10 ELSE 0)

\* line 347, in hundredths
clampConfidence(confidence) == Min2(95, Max2(30, confidence))

\* lines 319-348: the score in hundredths, or Threw
calculateConfidence(data, originalText) ==
  LET marked == fallbackMarked(data)
  IN IF marked = Threw THEN Threw
     ELSE JNum(clampConfidence(
            50 + keyCountBonus(data) + structureBonus(data)
               + ratioBonus(data, originalText)
               + (IF ~truthy(marked) THEN 20 ELSE 0)))

\* ------------------------------------------------------------------------
\* extractFields
\* ------------------------------------------------------------------------

\* line 420
fullKeyOf(prefix, key) ==
  IF Len(prefix) > 0 THEN prefix \o <<".">> \o key ELSE key

\* line 425
mayDescend(prefix) == splitLength(prefix, ".") < 3

\* lines 416-432
RECURSIVE extractFields(_, _)
extractFields(data, prefix) ==
  LET keys == ownKeys(data)
  IN Concat([k \in 1..Len(keys) |->
       LET fullKey == fullKeyOf(prefix, keys[k])
           value == Get(data, keys[k])
       IN <<fullKey>>
            \o (IF value.k = "object" /\ mayDescend(prefix)
                THEN extractFields(value, fullKey)
                ELSE <<>>)])

\* ------------------------------------------------------------------------
\* callCloudflareAI
\* ------------------------------------------------------------------------

S_result == <<"r", "e", "s", "u", "l", "t">>
S_response == <<"r", "e", "s", "p", "o", "n", "s", "e">>

\* the response body {"result": {"response": value}}
bodyWithResponse(value) ==
  JObj(<<Prop(S_result, JObj(<<Prop(S_response, value)>>))>>)

\* What one call comes to.  threw: the call throws (lines 32, 50, 58);
\* fetched: a network request was issued (line 36); data: the body
\* response.json() returned (line 53).  When data.result.response is a
\* string, strict is what JSON.parse returns for that string with its code
\* fences stripped (lines 197-202) and braces what it returns for the match
\* of /\{[\s\S]*\}/ in the string (lines 215-218); SyntaxError stands for a
\* parse that throws, NoMatch for a pattern that does not match.
Outcome(threw, fetched, why, data, strict, braces) ==
  [threw |-> threw, fetched |-> fetched, why |-> why, data |-> data,
   strict |-> strict, braces |-> braces]

SyntaxError == JV("SyntaxError", 0, <<>>, <<>>, <<>>)
NoMatch == JV("NoMatch", 0, <<>>, <<>>, <<>>)

\* lines 31-33: without credentials the call throws before fetch
throwsBeforeFetch(hasCredentials) == ~hasCredentials

\* a variant of CallOutcomes that issues the request before it looks at the
\* credentials
CallOutcomesFetchFirst(hasCredentials, Bodies) ==
  IF throwsBeforeFetch(hasCredentials)
  THEN {Outcome(TRUE, TRUE, "credentials", Undefined, Undefined, Undefined)}
  ELSE {Outcome(TRUE, TRUE, why, Undefined, Undefined, Undefined) :
          why \in {"network", "status", "body"}}
         \cup {Outcome(FALSE, TRUE, "ok", b.data, b.strict, b.braces) : b \in Bodies}
\* lines 30-60: the outcomes of a call whose successful bodies are Bodies
CallOutcomes(hasCredentials, Bodies) ==
  IF throwsBeforeFetch(hasCredentials)
  THEN {Outcome(TRUE, FALSE, "credentials", Undefined, Undefined, Undefined)}
  ELSE {Outcome(TRUE, TRUE, why, Undefined, Undefined, Undefined) :
          why \in {"network", "status", "body"}}
         \cup {Outcome(FALSE, TRUE, "ok", b.data, b.strict, b.braces) : b \in Bodies}

\* response.result?.response (lines 147, 195): Threw when response is null
resultResponse(data) ==
  IF isNullish(data) THEN Threw
  ELSE LET result == member(data, S_result)
       IN IF isNullish(result) THEN Undefined ELSE member(result, S_response)

\* ------------------------------------------------------------------------
\* generateSummary
\* ------------------------------------------------------------------------

S_Unable == <<"U", "n", "a", "b", "l", "e", " ", "t", "o", " ", "g", "e", "n", "e", "r", "a", "t", "e", " ", "s", "u", "m", "m", "a", "r", "y">>
S_Failed == <<"S", "u", "m", "m", "a", "r", "y", " ", "g", "e", "n", "e", "r", "a", "t", "i", "o", "n", " ", "f", "a", "i", "l", "e", "d">>

\* lines 128-156
generateSummary(outcome) ==
  IF outcome.threw THEN S_Unable
  ELSE LET response == resultResponse(outcome.data)
       IN IF response = Threw THEN S_Unable
          ELSE IF truthy(response)
          THEN (IF response.k = "string" THEN trim(response.s) ELSE S_Unable)
          ELSE S_Failed

\* ------------------------------------------------------------------------
\* analyzeTextWithAI
\* ------------------------------------------------------------------------

\* lines 204-211: a parsed response enters the accumulator
acceptParsed(combinedAnalysis, chunkNo, parsed) ==
  IF isObjectNotNull(parsed)
  THEN (IF chunkNo = 0 THEN parsed
        ELSE mergeAnalysisResults(combinedAnalysis, parsed))
  ELSE combinedAnalysis

\* lines 215-223: the object found between the braces enters the accumulator
acceptExtracted(combinedAnalysis, chunkNo, braces) ==
  IF braces = NoMatch \/ braces = SyntaxError THEN combinedAnalysis
  ELSE IF chunkNo = 0 THEN braces
  ELSE combinedAnalysis

\* lines 195-225: the accumulator after the response to the request for
\* chunk chunkNo, or Threw when the iteration throws to line 234
processResponse(combinedAnalysis, chunkNo, outcome) ==
  LET response == resultResponse(outcome.data)
  IN IF response = Threw THEN Threw
     ELSE IF ~truthy(response) THEN combinedAnalysis
     ELSE IF response.k # "string" THEN Threw
     ELSE IF outcome.strict # SyntaxError
     THEN acceptParsed(combinedAnalysis, chunkNo, outcome.strict)
     ELSE acceptExtracted(combinedAnalysis, chunkNo, outcome.braces)

\* a variant of chunksToProcess without the cap of two chunks
ChunksToProcessUncapped(chunks) == Len(chunks)

\* line 164
chunksToProcess(chunks) == Min2(Len(chunks), 2)

\* a variant of hasKeys that lets an empty accumulator through
HasKeysUntested(combinedAnalysis) == TRUE

\* line 228
hasKeys(combinedAnalysis) == Len(ownKeys(combinedAnalysis)) > 0

\* ------------------------------------------------------------------------
\* analyzeText
\* ------------------------------------------------------------------------

E_NoText == "No text provided for analysis"
E_TooShort == "Text is too short for meaningful analysis"
E_TooLong == "Text is too long. Please limit to 50,000 characters or less."
E_AnalysisFailed == "Analysis failed: data.metadata?.analysis_method?.includes is not a function"

\* line 359
MinWords == 5
\* line 363
MaxInputLength == 50000
\* line 161
ChunkSize == 3500

\* a variant of validationError without the word count
ValidationWithoutWordCheck(inputText) ==
  IF trim(inputText) = <<>> THEN E_NoText
  ELSE IF Len(inputText) > MaxInputLength THEN E_TooLong
  ELSE ""
\* a variant of validationError that tests the length before the word count
ValidationLengthFirst(inputText) ==
  IF trim(inputText) = <<>> THEN E_NoText
  ELSE IF Len(inputText) > MaxInputLength THEN E_TooLong
  ELSE IF Len(splitWords(inputText)) < MinWords THEN E_TooShort
  ELSE ""
\* lines 353-368: the error the validation returns, "" when it passes
validationError(inputText) ==
  IF trim(inputText) = <<>> THEN E_NoText
  ELSE IF Len(splitWords(inputText)) < MinWords THEN E_TooShort
  ELSE IF Len(inputText) > MaxInputLength THEN E_TooLong
  ELSE ""

\* what analyzeText returns
Failure(error) ==
  [returned |-> TRUE, success |-> FALSE, error |-> error, data |-> Undefined,
   fields |-> <<>>, inputType |-> <<>>, confidence |-> 0, summary |-> <<>>,
   wordCount |-> 0]
Success(data, fields, inputType, confidence, summary, wordCount) ==
  [returned |-> TRUE, success |-> TRUE, error |-> "", data |-> data,
   fields |-> fields, inputType |-> inputType, confidence |-> confidence,
   summary |-> summary, wordCount |-> wordCount]
NotReturned ==
  [returned |-> FALSE, success |-> FALSE, error |-> "", data |-> Undefined,
   fields |-> <<>>, inputType |-> <<>>, confidence |-> 0, summary |-> <<>>,
   wordCount |-> 0]

\* lines 381-403: the result once the document is there
finish(structuredData, inputText, contentType, summary, wordCount) ==
  LET confidence == calculateConfidence(structuredData, inputText)
  IN IF confidence = Threw THEN Failure(E_AnalysisFailed)
     ELSE Success(structuredData, extractFields(structuredData, <<>>), contentType,
                  confidence.n, summary, wordCount)

\* ------------------------------------------------------------------------
\* State
\* ------------------------------------------------------------------------

VARIABLES
  ck_pc,          \* chunkText: "idle", "call", "loop" (line 71), "done"
  ck_text,        \* chunkText: its argument text
  ck_max,         \* chunkText: its argument maxChunkSize
  ck_startIndex,  \* chunkText: startIndex
  ck_chunks,      \* chunkText: chunks
  ck_slices,      \* history: the <<startIndex, endIndex>> of every slice cut
  ck_breaks,      \* history: for every slice, whether it ends at a break point
  mg_pc,          \* mergeAnalysisResults: "idle", "call", "keys" (line 242), "done"
  mg_target,      \* mergeAnalysisResults: target
  mg_source,      \* mergeAnalysisResults: source
  mg_keys,        \* mergeAnalysisResults: the keys forEach has still to visit
  mg_target0,     \* history: target as it was passed
  an_pc,          \* analyzeText: "idle", "call", "summary" (line 375),
                  \*   "extract" (line 161), "loop" (line 164), "catch"
                  \*   (line 234), "confidence" (line 381), "done"
  an_inputText,   \* analyzeText: its argument inputText
  an_credentials, \* whether CLOUDFLARE_ACCOUNT_ID and CLOUDFLARE_API_TOKEN are set
  an_wordCount,   \* analyzeText: wordCount
  an_contentType, \* analyzeText: contentType
  an_summary,     \* analyzeText: summary
  an_chunks,      \* analyzeTextWithAI: chunks
  an_i,           \* analyzeTextWithAI: i
  an_combinedAnalysis, \* analyzeTextWithAI: combinedAnalysis
  an_structuredData,   \* analyzeText: structuredData
  an_result,      \* what analyzeText returned
  an_requests,    \* history: the calls of callCloudflareAI, in order
  dc_pc,          \* detectContentType: "idle", "call", "done"
  dc_text,        \* detectContentType: its argument text
  dc_label,       \* detectContentType: what it returned
  cf_pc,          \* calculateConfidence: "idle", "call", "done"
  cf_data,        \* calculateConfidence: its argument data
  cf_text,        \* calculateConfidence: its argument originalText
  cf_result,      \* calculateConfidence: what it returned, Threw when it threw
  ef_pc,          \* extractFields: "idle", "call", "loop", "done"
  ef_data,        \* extractFields: the document of the outermost call
  ef_stack,       \* extractFields: the calls in progress, innermost last
  ef_fields,      \* extractFields: the field names pushed so far
  ef_from,        \* history: the prefixes of the calls that recursed
  rs_pc,          \* one iteration of the loop: "idle", "call", "done"
  rs_combinedAnalysis, \* the accumulator before the iteration
  rs_i,           \* the number of the chunk
  rs_outcome,     \* what the call returned
  rs_after        \* the accumulator after the iteration, or Threw

ckVars == <<ck_pc, ck_text, ck_max, ck_startIndex, ck_chunks, ck_slices,
            ck_breaks>>
mgVars == <<mg_pc, mg_target, mg_source, mg_keys, mg_target0>>

anVars == <<an_pc, an_inputText, an_credentials, an_wordCount, an_contentType,
            an_summary, an_chunks, an_i, an_combinedAnalysis, an_structuredData,
            an_result, an_requests>>

dcVars == <<dc_pc, dc_text, dc_label>>

cfVars == <<cf_pc, cf_data, cf_text, cf_result>>

efVars == <<ef_pc, ef_data, ef_stack, ef_fields, ef_from>>

rsVars == <<rs_pc, rs_combinedAnalysis, rs_i, rs_outcome, rs_after>>

vars == <<ckVars, mgVars, anVars, dcVars, cfVars, efVars, rsVars>>
notChunkVars == <<mgVars, anVars, dcVars, cfVars, efVars, rsVars>>
notMergeVars == <<ckVars, anVars, dcVars, cfVars, efVars, rsVars>>
notAnalyzeVars == <<ckVars, mgVars, dcVars, cfVars, efVars, rsVars>>
notClassifyVars == <<ckVars, mgVars, anVars, cfVars, efVars, rsVars>>
notConfidenceVars == <<ckVars, mgVars, anVars, dcVars, efVars, rsVars>>
notFieldsVars == <<ckVars, mgVars, anVars, dcVars, cfVars, rsVars>>
notResponseVars == <<ckVars, mgVars, anVars, dcVars, cfVars, efVars>>

\* ------------------------------------------------------------------------
\* chunkText, one loop iteration per step
\* ------------------------------------------------------------------------

ChunkAlphabet == {"a", ".", " ", "\n"}

RECURSIVE TextsOfLen(_, _)
TextsOfLen(alphabet, n) ==
  IF n = 0 THEN {<<>>}
  ELSE {Append(t, c) : t \in TextsOfLen(alphabet, n - 1), c \in alphabet}

ChunkTexts == UNION {TextsOfLen(ChunkAlphabet, n) : n \in 0..MaxLen}

ChunkIdle ==
  /\ ck_pc = "idle"
  /\ ck_text = <<>>
  /\ ck_max = 1
  /\ ck_startIndex = 0
  /\ ck_chunks = <<>>
  /\ ck_slices = <<>>
  /\ ck_breaks = <<>>

ChunkStart ==
  /\ ck_pc = "call"
  /\ ck_text \in ChunkTexts
  /\ ck_max \in 1..MaxSize
  /\ ck_startIndex = 0
  /\ ck_chunks = <<>>
  /\ ck_slices = <<>>
  /\ ck_breaks = <<>>

\* the texts of the calls that are followed to their end
MaxLiveLen == 3

ChunkLiveStart ==
  /\ ChunkStart
  /\ Len(ck_text) <= MaxLiveLen

\* lines 64-66: the text fits one chunk
ChunkSingle ==
  /\ ck_pc = "call"
  /\ fitsOneChunk(ck_text, ck_max)
  /\ ck_chunks' = singleChunk(ck_text)
  /\ ck_slices' = <<<<0, Len(ck_text)>>>>
  /\ ck_breaks' = <<FALSE>>
  /\ ck_pc' = "done"
  /\ UNCHANGED <<ck_text, ck_max, ck_startIndex>>
  /\ UNCHANGED notChunkVars

\* lines 68-69
ChunkEnterLoop ==
  /\ ck_pc = "call"
  /\ ~fitsOneChunk(ck_text, ck_max)
  /\ ck_pc' = "loop"
  /\ ck_startIndex' = 0
  /\ ck_chunks' = <<>>
  /\ UNCHANGED <<ck_text, ck_max, ck_slices, ck_breaks>>
  /\ UNCHANGED notChunkVars

\* lines 71-87: one iteration of the loop
ChunkIterate ==
  /\ ck_pc = "loop"
  /\ ck_startIndex < Len(ck_text)
  /\ LET endIndex == chunkEnd(ck_text, ck_max, ck_startIndex)
     IN /\ ck_chunks' = Append(ck_chunks, chunkOf(ck_text, ck_startIndex, endIndex))
        /\ ck_slices' = Append(ck_slices, <<ck_startIndex, endIndex>>)
        /\ ck_breaks' = Append(ck_breaks, cutAtBreak(ck_text, ck_max, ck_startIndex))
        /\ ck_startIndex' = nextStart(endIndex)
  /\ UNCHANGED <<ck_pc, ck_text, ck_max>>
  /\ UNCHANGED notChunkVars

\* lines 71, 89: the loop ends and the chunks are returned
ChunkReturn ==
  /\ ck_pc = "loop"
  /\ ~(ck_startIndex < Len(ck_text))
  /\ ck_pc' = "done"
  /\ UNCHANGED <<ck_text, ck_max, ck_startIndex, ck_chunks, ck_slices, ck_breaks>>
  /\ UNCHANGED notChunkVars

ChunkNext == ChunkSingle \/ ChunkEnterLoop \/ ChunkIterate \/ ChunkReturn

\* ------------------------------------------------------------------------
\* mergeAnalysisResults, one key of source per step
\* ------------------------------------------------------------------------

KeyA == <<"a">>
KeyB == <<"b">>
KeyC == <<"c">>

MergeScalars ==
  {JNum(0), JNum(5), JStr(<<>>), JStr(<<"x">>), JStr(<<"y">>),
   JBool(FALSE), JBool(TRUE), JNull}

ArrayElements == {JNum(1), JNum(2), JNum(3)}

MergeArrays ==
  {JArr(e) : e \in UNION {[1..n -> ArrayElements] : n \in 0..MaxArrLen}}

MergeNested ==
  {JObj(<<>>), JObj(<<Prop(KeyA, JNum(1))>>), JObj(<<Prop(KeyB, JStr(<<"x">>))>>)}

MergeValues == MergeScalars \cup MergeArrays \cup MergeNested

\* the document with the given values at "a", "b" and "c" (Undefined: the
\* key is absent)
DocOf(a, b, c) ==
  JObj(SelectSeq(<<Prop(KeyA, a), Prop(KeyB, b), Prop(KeyC, c)>>,
                 LAMBDA q : q.val.k # "undefined"))

MergeDocs ==
  {DocOf(a, b, c) : a \in MergeValues \cup {Undefined},
                    b \in {Undefined, JStr(<<"x">>), JStr(<<"y">>)},
                    c \in {Undefined, JNum(5)}}

MergeIdle ==
  /\ mg_pc = "idle"
  /\ mg_target = JObj(<<>>)
  /\ mg_source = JObj(<<>>)
  /\ mg_keys = <<>>
  /\ mg_target0 = JObj(<<>>)

MergeStart ==
  /\ mg_pc = "call"
  /\ mg_target \in MergeDocs
  /\ mg_source \in MergeDocs
  /\ mg_keys = <<>>
  /\ mg_target0 = mg_target

\* line 242: Object.keys(source)
MergeCall ==
  /\ mg_pc = "call"
  /\ mg_keys' = ownKeys(mg_source)
  /\ mg_pc' = "keys"
  /\ UNCHANGED <<mg_target, mg_source, mg_target0>>
  /\ UNCHANGED notMergeVars

\* lines 242-258: the callback for the next key
MergeKey ==
  /\ mg_pc = "keys"
  /\ mg_keys # <<>>
  /\ mg_target' = mergeKey(mg_target, mg_source, Head(mg_keys))
  /\ mg_keys' = Tail(mg_keys)
  /\ UNCHANGED <<mg_pc, mg_source, mg_target0>>
  /\ UNCHANGED notMergeVars

\* line 259
MergeReturn ==
  /\ mg_pc = "keys"
  /\ mg_keys = <<>>
  /\ mg_pc' = "done"
  /\ UNCHANGED <<mg_target, mg_source, mg_keys, mg_target0>>
  /\ UNCHANGED notMergeVars

MergeNext == MergeCall \/ MergeKey \/ MergeReturn

\* ------------------------------------------------------------------------
\* analyzeText, one call or one loop iteration per step
\* ------------------------------------------------------------------------

MaxPad == 1
MaxWords == 6
RepeatCount == 60000

Rep(c, n) == <<>> \o [k \in 1..n |-> c]

\* words of len letters each, separated by single spaces, between lead
\* leading and trail trailing spaces
WordsText(lead, n, len, trail) ==
  Rep(" ", lead) \o JoinWith([k \in 1..n |-> Rep("a", len)], <<" ">>)
    \o Rep(" ", trail)

\* a narrative of fifty words
NarrativeSentence == <<"T", "h", "e", " ", "o", "l", "d", " ", "f", "o", "x", " ", "t", "o", "l", "d", " ", "a", " ", "s", "t", "o", "r", "y", " ", "b", "y", " ", "t", "h", "e", " ", "r", "i", "v", "e", "r", ".", " ">>
NarrativeText ==
  NarrativeSentence \o NarrativeSentence \o NarrativeSentence
    \o NarrativeSentence \o NarrativeSentence \o <<"A", "l", "l", " ", "o", "f", " ", "t", "h", "e", "m", " ", "w", "e", "n", "t", " ", "h", "o", "m", "e", ".">>

\* the inputs: short texts around the word limit, the repeated character of
\* either kind, a text of five words one character over the length limit, a
\* text over the length limit with too few words, a text of three chunks,
\* and the narrative
AnalyzeInputs ==
  {WordsText(lead, n, 1, trail) :
     lead \in 0..MaxPad, n \in 0..MaxWords, trail \in 0..MaxPad}
    \cup {Rep(c, RepeatCount) : c \in {"a", " "}}
    \cup {WordsText(0, MinWords, MaxInputLength \div MinWords - 1, 2),
          WordsText(0, MinWords - 1, MaxInputLength \div (MinWords - 1) + 1, 0),
          WordsText(0, MinWords, ChunkSize \div 2, 0),
          NarrativeText}

\* documents the service may answer with
Doc1 == JObj(<<Prop(<<"a">>, JArr(<<JNum(1), JNum(2)>>)), Prop(<<"b">>, JStr(<<"x">>))>>)
Doc2 ==
  JObj(<<Prop(<<"a">>, JArr(<<JNum(2), JNum(3)>>)), Prop(<<"b">>, JStr(<<"y">>)),
         Prop(<<"c">>, JNum(5))>>)
DocMethodNumber ==
  JObj(<<Prop(S_metadata, JObj(<<Prop(S_analysis_method, JNum(5))>>))>>)
DocMethodText ==
  JObj(<<Prop(S_metadata, JObj(<<Prop(S_analysis_method, JStr(<<"l", "l", "m">>))>>))>>)

\* a body whose result.response is the string text
TextBody(text, strict, braces) ==
  [data |-> bodyWithResponse(JStr(text)), strict |-> strict, braces |-> braces]
\* a body whose result.response is the JSON text of value
JsonBody(value) ==
  TextBody(stringify(value), value, IF value.k = "object" THEN value ELSE NoMatch)
\* a body whose result.response is prose around the JSON text of value
ProseBody(value) ==
  TextBody(<<"H", "e", "r", "e", ":", " ">> \o stringify(value) \o <<" ", "D", "o", "n", "e", ".">>, SyntaxError, value)
\* a body that has no result.response string
OtherBody(data) == [data |-> data, strict |-> Undefined, braces |-> Undefined]

ExtractionBodies ==
  {JsonBody(value) :
     value \in {Doc1, Doc2, DocMethodNumber, DocMethodText, JObj(<<>>),
                JArr(<<JNum(1), JNum(2)>>), JNum(5), JNull}}
    \cup {ProseBody(Doc1), ProseBody(Doc2),
          TextBody(<<"n", "o", " ", "j", "s", "o", "n", " ", "h", "e", "r", "e">>, SyntaxError, NoMatch),
          TextBody(<<"{", "o", "o", "p", "s", "}">>, SyntaxError, SyntaxError),
          TextBody(<<>>, SyntaxError, NoMatch),
          OtherBody(JNull), OtherBody(JObj(<<>>)),
          OtherBody(bodyWithResponse(JNum(7)))}

SummaryBodies ==
  {TextBody(<<" ", "A", " ", "s", "u", "m", "m", "a", "r", "y", ".", "\n">>, Undefined, Undefined),
   TextBody(<<>>, Undefined, Undefined),
   OtherBody(JNull), OtherBody(JObj(<<>>)), OtherBody(bodyWithResponse(JNum(7)))}

\* new Date().toISOString() (line 312)
Timestamps == {<<"2", "0", "2", "4", "-", "0", "1", "-", "0", "1", "T", "0", "0", ":", "0", "0", ":", "0", "0", ".", "0", "0", "0", "Z">>, <<"2", "0", "2", "4", "-", "1", "2", "-", "3", "1", "T", "2", "3", ":", "5", "9", ":", "5", "9", ".", "9", "9", "9", "Z">>}

Request(kind, chunkNo, outcome, after) ==
  [kind |-> kind, chunkNo |-> chunkNo, threw |-> outcome.threw,
   fetched |-> outcome.fetched, after |-> after]

AnalyzeIdle ==
  /\ an_pc = "idle"
  /\ an_inputText = <<>>
  /\ an_credentials = FALSE
  /\ an_wordCount = 0
  /\ an_contentType = <<>>
  /\ an_summary = <<>>
  /\ an_chunks = <<>>
  /\ an_i = 0
  /\ an_combinedAnalysis = Undefined
  /\ an_structuredData = Undefined
  /\ an_result = NotReturned
  /\ an_requests = <<>>

AnalyzeStart ==
  /\ an_pc = "call"
  /\ an_inputText \in AnalyzeInputs
  /\ an_credentials \in BOOLEAN
  /\ an_wordCount = 0
  /\ an_contentType = <<>>
  /\ an_summary = <<>>
  /\ an_chunks = <<>>
  /\ an_i = 0
  /\ an_combinedAnalysis = Undefined
  /\ an_structuredData = Undefined
  /\ an_result = NotReturned
  /\ an_requests = <<>>

\* lines 353-371: the three checks, then the word count and the label
Validate ==
  /\ an_pc = "call"
  /\ LET error == validationError(an_inputText)
     IN IF error # ""
        THEN /\ an_pc' = "done"
             /\ an_result' = Failure(error)
             /\ UNCHANGED <<an_wordCount, an_contentType>>
        ELSE /\ an_pc' = "summary"
             /\ an_wordCount' = Len(splitWords(an_inputText))
             /\ an_contentType' = detectContentType(an_inputText)
             /\ UNCHANGED an_result
  /\ UNCHANGED <<an_inputText, an_credentials, an_summary, an_chunks, an_i,
                 an_combinedAnalysis, an_structuredData, an_requests>>
  /\ UNCHANGED notAnalyzeVars

\* line 375: generateSummary
Summarize ==
  /\ an_pc = "summary"
  /\ \E outcome \in CallOutcomes(an_credentials, SummaryBodies) :
       /\ an_summary' = generateSummary(outcome)
       /\ an_requests' = Append(an_requests, Request("summary", 0, outcome, Undefined))
  /\ an_pc' = "extract"
  /\ UNCHANGED <<an_inputText, an_credentials, an_wordCount, an_contentType,
                 an_chunks, an_i, an_combinedAnalysis, an_structuredData,
                 an_result>>
  /\ UNCHANGED notAnalyzeVars

\* lines 161-164
BeginExtract ==
  /\ an_pc = "extract"
  /\ an_chunks' = chunkText(an_inputText, ChunkSize)
  /\ an_combinedAnalysis' = JObj(<<>>)
  /\ an_i' = 0
  /\ an_pc' = "loop"
  /\ UNCHANGED <<an_inputText, an_credentials, an_wordCount, an_contentType,
                 an_summary, an_structuredData, an_result, an_requests>>
  /\ UNCHANGED notAnalyzeVars

\* lines 164-226: one iteration; a throw leaves the try block for line 234
ExtractChunk ==
  /\ an_pc = "loop"
  /\ an_i < chunksToProcess(an_chunks)
  /\ \E outcome \in CallOutcomes(an_credentials, ExtractionBodies) :
       /\ LET after == IF outcome.threw THEN Threw
                       ELSE processResponse(an_combinedAnalysis, an_i, outcome)
          IN /\ an_requests' =
                  Append(an_requests, Request("extract", an_i, outcome, after))
             /\ IF after = Threw
                THEN /\ an_pc' = "catch"
                     /\ an_chunks' = <<>>
                     /\ an_i' = 0
                     /\ an_combinedAnalysis' = Undefined
                ELSE /\ an_pc' = "loop"
                     /\ an_combinedAnalysis' = after
                     /\ an_i' = an_i + 1
                     /\ UNCHANGED an_chunks
  /\ UNCHANGED <<an_inputText, an_credentials, an_wordCount, an_contentType,
                 an_summary, an_structuredData, an_result>>
  /\ UNCHANGED notAnalyzeVars

\* lines 228-232: after the loop
EndExtract ==
  /\ an_pc = "loop"
  /\ an_i >= chunksToProcess(an_chunks)
  /\ IF hasKeys(an_combinedAnalysis)
     THEN /\ an_structuredData' = an_combinedAnalysis
          /\ an_pc' = "confidence"
     ELSE /\ an_pc' = "catch"
          /\ UNCHANGED an_structuredData
  /\ an_chunks' = <<>>
  /\ an_i' = 0
  /\ an_combinedAnalysis' = Undefined
  /\ UNCHANGED <<an_inputText, an_credentials, an_wordCount, an_contentType,
                 an_summary, an_result, an_requests>>
  /\ UNCHANGED notAnalyzeVars

\* lines 234-237
Fallback ==
  /\ an_pc = "catch"
  /\ \E timestamp \in Timestamps :
       an_structuredData' = fallbackAnalysis(an_inputText, an_contentType, timestamp)
  /\ an_pc' = "confidence"
  /\ UNCHANGED <<an_inputText, an_credentials, an_wordCount, an_contentType,
                 an_summary, an_chunks, an_i, an_combinedAnalysis, an_result,
                 an_requests>>
  /\ UNCHANGED notAnalyzeVars

\* lines 381-403
Finish ==
  /\ an_pc = "confidence"
  /\ an_result' = finish(an_structuredData, an_inputText, an_contentType,
                         an_summary, an_wordCount)
  /\ an_pc' = "done"
  /\ UNCHANGED <<an_inputText, an_credentials, an_wordCount, an_contentType,
                 an_summary, an_chunks, an_i, an_combinedAnalysis,
                 an_structuredData, an_requests>>
  /\ UNCHANGED notAnalyzeVars

Next ==
  Validate \/ Summarize \/ BeginExtract \/ ExtractChunk \/ EndExtract
    \/ Fallback \/ Finish

\* ------------------------------------------------------------------------
\* detectContentType, one call per step
\* ------------------------------------------------------------------------

MaxParts == 2

\* pieces of text: what each rule looks for, whole and in part, in either
\* case of letters
Parts ==
  <<<<"A", "b", "s", "t", "r", "a", "c", "t", " ", "i", "n", "t", "r", "o", "d", "u", "c", "t", "i", "o", "n", " ", "C", "O", "N", "C", "L", "U", "S", "I", "O", "N">>, <<"a", "b", "s", "t", "r", "a", "c", "t", " ", "i", "n", "t", "r", "o", "d", "u", "c", "t", "i", "o", "n">>,
    <<"I", "n", "g", "r", "e", "d", "i", "e", "n", "t", "s", " ", "r", "e", "c", "i", "p", "e">>, <<"i", "n", "g", "r", "e", "d", "i", "e", "n", "t", "s">>,
    <<"R", "e", "c", "i", "p", "e">>, <<"i", "n", "s", "t", "r", "u", "c", "t", "i", "o", "n", "s">>,
    <<"e", "x", "p", "e", "r", "i", "e", "n", "c", "e", " ", "e", "d", "u", "c", "a", "t", "i", "o", "n", " ", "s", "k", "i", "l", "l", "s">>, <<"e", "x", "p", "e", "r", "i", "e", "n", "c", "e", " ", "s", "k", "i", "l", "l", "s">>,
    <<"e", "m", "a", "i", "l">>, <<"u", "s", "e", "r", "@", "e", "x", "a", "m", "p", "l", "e">>, <<"P", "a", "s", "s", "w", "o", "r", "d">>,
    <<"2", "0", "2", "4", "-", "0", "1", "-", "1", "5">>, <<"1", "/", "2", "/", "2", "0", "2", "4">>, <<"1", "2", "/", "2", "5", "/", "2", "0", "2", "4">>, <<"2", "0", "2", "4", "-", "1", "-", "1", "5">>, <<"1", "/", "2", "/", "2", "4">>,
    <<"m", "e", "e", "t", "i", "n", "g">>, <<"A", "g", "e", "n", "d", "a">>, <<"m", "i", "n", "u", "t", "e", "s">>,
    Rep("\n", 10), Rep("\n", 9), <<",">>,
    <<"S", "t", "o", "r", "y">>, <<"c", "h", "a", "p", "t", "e", "r">>, Rep(".", 20), Rep(".", 19), Rep("!", 20),
    <<"p", "r", "o", "d", "u", "c", "t">>, <<"p", "r", "i", "c", "e">>, <<"F", "e", "a", "t", "u", "r", "e">>,
    <<"h", "e", "l", "l", "o">>>>

\* the choices of at most n parts, each after the one before it
RECURSIVE PartChoices(_, _)
PartChoices(first, n) ==
  IF n = 0 THEN {<<>>}
  ELSE {<<>>} \cup UNION {{<<part>> \o rest : rest \in PartChoices(part + 1, n - 1)} :
                            part \in first..Len(Parts)}

ClassifyTexts ==
  {JoinWith([k \in 1..Len(choice) |-> Parts[choice[k]]], <<" ">>) :
     choice \in PartChoices(1, MaxParts)}

ClassifyIdle ==
  /\ dc_pc = "idle"
  /\ dc_text = <<>>
  /\ dc_label = <<>>

ClassifyStart ==
  /\ dc_pc = "call"
  /\ dc_text \in ClassifyTexts
  /\ dc_label = <<>>

\* lines 93-125
Classify ==
  /\ dc_pc = "call"
  /\ dc_label' = detectContentType(dc_text)
  /\ dc_pc' = "done"
  /\ UNCHANGED dc_text
  /\ UNCHANGED notClassifyVars

ClassifyNext == Classify

\* ------------------------------------------------------------------------
\* calculateConfidence, one call per step
\* ------------------------------------------------------------------------

\* how many scalar properties a document starts with: around the limits 5
\* and 10 of lines 323-324
KeyCounts == {0, 1, 5, 6, 10, 11}

\* the lengths of the original text: empty, and around a tenth and three
\* tenths of the serialized documents
TextLengths == {0, 1, 20, 60, 100, 200, 400, 700, 2000}

ScalarProps(n) == [k \in 1..n |-> Prop(<<"k">> \o NatToStr(k), JNum(k))]

\* what a document may have at "metadata": nothing, null, a string, or an
\* object whose analysis_method is absent, a string, a sequence, a number, a
\* boolean or an object
MethodValues ==
  {Undefined, JNull, JStr(S_fallback_rule_based), JStr(<<"l", "l", "m">>),
   JArr(<<JStr(<<"f", "a", "l", "l", "b", "a", "c", "k">>)>>), JArr(<<JStr(<<"l", "l", "m">>)>>),
   JNum(5), JBool(FALSE), JObj(<<>>)}

MetadataValues ==
  {Undefined, JNull, JStr(<<"n", "o", "n", "e">>)}
    \cup {JObj(IF am = Undefined THEN <<>> ELSE <<Prop(S_analysis_method, am)>>) :
            am \in MethodValues}

\* a document of n scalar properties, then a sequence, a nested document
\* and metadata when asked for
ConfidenceDoc(n, withArray, withObject, metadata) ==
  JObj(ScalarProps(n)
         \o (IF withArray THEN <<Prop(<<"i", "t", "e", "m", "s">>, JArr(<<JNum(1)>>))>> ELSE <<>>)
         \o (IF withObject THEN <<Prop(<<"n", "e", "s", "t", "e", "d">>, JObj(<<Prop(<<"a">>, JNum(1))>>))>>
             ELSE <<>>)
         \o (IF metadata = Undefined THEN <<>> ELSE <<Prop(S_metadata, metadata)>>))

ConfidenceDocs ==
  {ConfidenceDoc(n, withArray, withObject, metadata) :
     n \in KeyCounts, withArray \in BOOLEAN, withObject \in BOOLEAN,
     metadata \in MetadataValues}
    \cup {JArr(<<JNum(1), JNum(2)>>)}

ConfidenceIdle ==
  /\ cf_pc = "idle"
  /\ cf_data = Undefined
  /\ cf_text = <<>>
  /\ cf_result = Undefined

ConfidenceStart ==
  /\ cf_pc = "call"
  /\ cf_data \in ConfidenceDocs
  /\ cf_text \in {Rep("a", n) : n \in TextLengths}
  /\ cf_result = Undefined

\* lines 319-348
Confidence ==
  /\ cf_pc = "call"
  /\ cf_result' = calculateConfidence(cf_data, cf_text)
  /\ cf_pc' = "done"
  /\ UNCHANGED <<cf_data, cf_text>>
  /\ UNCHANGED notConfidenceVars

ConfidenceNext == Confidence

\* ------------------------------------------------------------------------
\* extractFields, one key per step
\* ------------------------------------------------------------------------

\* how deep the documents nest
MaxDepth == 6

\* a key, the empty key, and a key that holds a "."
FieldKeys == {<<"a">>, <<>>, <<"a", ".", "b">>}

FieldLeaves == {JNum(1), JArr(<<JObj(<<Prop(<<"a">>, JNum(1))>>)>>)}

\* a value under depth nested documents of one property each
RECURSIVE FieldChains(_)
FieldChains(depth) ==
  IF depth = 0 THEN FieldLeaves
  ELSE {JObj(<<Prop(key, inner)>>) : key \in FieldKeys, inner \in FieldChains(depth - 1)}

FieldDocs ==
  UNION {FieldChains(depth) : depth \in 1..MaxDepth}
    \cup {JObj(<<Prop(<<"a">>, first), Prop(<<"b">>, second)>>) :
            first \in FieldChains(2), second \in FieldChains(1)}

\* the call extractFields(data, prefix), about to visit its key number idx
Frame(data, prefix, idx) == [data |-> data, prefix |-> prefix, idx |-> idx]

FieldsIdle ==
  /\ ef_pc = "idle"
  /\ ef_data = Undefined
  /\ ef_stack = <<>>
  /\ ef_fields = <<>>
  /\ ef_from = {}

FieldsStart ==
  /\ ef_pc = "call"
  /\ ef_data \in FieldDocs
  /\ ef_stack = <<>>
  /\ ef_fields = <<>>
  /\ ef_from = {}

\* line 416: the outermost call, prefix = ''
FieldsCall ==
  /\ ef_pc = "call"
  /\ ef_stack' = <<Frame(ef_data, <<>>, 1)>>
  /\ ef_pc' = "loop"
  /\ UNCHANGED <<ef_data, ef_fields, ef_from>>
  /\ UNCHANGED notFieldsVars

\* lines 419-428: one key of the innermost call
FieldsKey ==
  /\ ef_pc = "loop"
  /\ LET depth == Len(ef_stack)
         top == ef_stack[depth]
         keys == ownKeys(top.data)
     IN /\ top.idx <= Len(keys)
        /\ LET key == keys[top.idx]
               value == Get(top.data, key)
               fullKey == fullKeyOf(top.prefix, key)
               after == [ef_stack EXCEPT ![depth].idx = top.idx + 1]
           IN /\ ef_fields' = Append(ef_fields, fullKey)
              /\ IF value.k = "object" /\ mayDescend(top.prefix)
                 THEN /\ ef_stack' = Append(after, Frame(value, fullKey, 1))
                      /\ ef_from' = ef_from \cup {top.prefix}
                 ELSE /\ ef_stack' = after
                      /\ ef_from' = ef_from
  /\ UNCHANGED <<ef_pc, ef_data>>
  /\ UNCHANGED notFieldsVars

\* line 431: the innermost call returns
FieldsReturn ==
  /\ ef_pc = "loop"
  /\ LET depth == Len(ef_stack)
         top == ef_stack[depth]
     IN /\ top.idx > Len(ownKeys(top.data))
        /\ ef_stack' = SubSeq(ef_stack, 1, depth - 1)
        /\ ef_pc' = IF depth = 1 THEN "done" ELSE "loop"
  /\ UNCHANGED <<ef_data, ef_fields, ef_from>>
  /\ UNCHANGED notFieldsVars

FieldsNext ==
  \/ FieldsCall
  \/ FieldsKey
  \/ FieldsReturn

\* ------------------------------------------------------------------------
\* One response of the extraction loop, lines 195-225
\* ------------------------------------------------------------------------

\* the calls that returned a body
Responses == {outcome \in CallOutcomes(TRUE, ExtractionBodies) : ~outcome.threw}

\* the accumulator when the request for chunk i is issued: line 162 for
\* chunk 0, what chunk 0 left for chunk 1
AccumulatorsBefore(i) ==
  IF i = 0 THEN {JObj(<<>>)}
  ELSE {processResponse(JObj(<<>>), 0, outcome) : outcome \in Responses} \ {Threw}

ResponseIdle ==
  /\ rs_pc = "idle"
  /\ rs_combinedAnalysis = Undefined
  /\ rs_i = 0
  /\ rs_outcome = Undefined
  /\ rs_after = Undefined

ResponseStart ==
  /\ rs_pc = "call"
  /\ rs_i \in {0, 1}
  /\ rs_combinedAnalysis \in AccumulatorsBefore(rs_i)
  /\ rs_outcome \in Responses
  /\ rs_after = Undefined

\* lines 195-225
Respond ==
  /\ rs_pc = "call"
  /\ rs_after' = processResponse(rs_combinedAnalysis, rs_i, rs_outcome)
  /\ rs_pc' = "done"
  /\ UNCHANGED <<rs_combinedAnalysis, rs_i, rs_outcome>>
  /\ UNCHANGED notResponseVars

ResponseNext == Respond

\* ------------------------------------------------------------------------
\* Specifications
\* ------------------------------------------------------------------------

Init ==
  AnalyzeStart /\ ChunkIdle /\ MergeIdle /\ ClassifyIdle
    /\ ConfidenceIdle /\ FieldsIdle /\ ResponseIdle
Spec == Init /\ [][Next]_vars

ChunkInit ==
  ChunkStart /\ MergeIdle /\ AnalyzeIdle /\ ClassifyIdle
    /\ ConfidenceIdle /\ FieldsIdle /\ ResponseIdle
SpecChunk == ChunkInit /\ [][ChunkNext]_vars
\* the call runs to its end: no step of the synchronous loop waits for
\* anything, so a step that is possible is taken
ChunkLiveInit ==
  ChunkLiveStart /\ MergeIdle /\ AnalyzeIdle /\ ClassifyIdle
    /\ ConfidenceIdle /\ FieldsIdle /\ ResponseIdle
SpecChunkLive == ChunkLiveInit /\ [][ChunkNext]_vars /\ WF_vars(ChunkNext)

MergeInit ==
  MergeStart /\ ChunkIdle /\ AnalyzeIdle /\ ClassifyIdle
    /\ ConfidenceIdle /\ FieldsIdle /\ ResponseIdle
SpecMerge == MergeInit /\ [][MergeNext]_vars

ClassifyInit ==
  ClassifyStart /\ ChunkIdle /\ MergeIdle /\ AnalyzeIdle
    /\ ConfidenceIdle /\ FieldsIdle /\ ResponseIdle
SpecClassify == ClassifyInit /\ [][ClassifyNext]_vars

ConfidenceInit ==
  ConfidenceStart /\ ChunkIdle /\ MergeIdle /\ AnalyzeIdle
    /\ ClassifyIdle /\ FieldsIdle /\ ResponseIdle
SpecConfidence == ConfidenceInit /\ [][ConfidenceNext]_vars

FieldsInit ==
  FieldsStart /\ ChunkIdle /\ MergeIdle /\ AnalyzeIdle
    /\ ClassifyIdle /\ ConfidenceIdle /\ ResponseIdle
SpecFields == FieldsInit /\ [][FieldsNext]_vars

ResponseInit ==
  ResponseStart /\ ChunkIdle /\ MergeIdle /\ AnalyzeIdle
    /\ ClassifyIdle /\ ConfidenceIdle /\ FieldsIdle
SpecResponse == ResponseInit /\ [][ResponseNext]_vars

\* ------------------------------------------------------------------------
\* Properties of analyzeText (Spec)
\* ------------------------------------------------------------------------

ValidationErrors == {E_NoText, E_TooShort, E_TooLong}

AllWhitespace(t) == \A i \in 1..Len(t) : IsWhitespace(t[i])

\* the number of maximal runs of non-whitespace characters
WordsDelimited(t) ==
  Cardinality({i \in 1..Len(t) :
                 ~IsWhitespace(t[i]) /\ (i = 1 \/ IsWhitespace(t[i - 1]))})

FirstFailingCheck(t) ==
  IF AllWhitespace(t) THEN "No text provided for analysis"
  ELSE IF WordsDelimited(t) < 5 THEN "Text is too short for meaningful analysis"
  ELSE IF Len(t) > 50000
  THEN "Text is too long. Please limit to 50,000 characters or less."
  ELSE ""

\* C1: once the input is validated, an input that is empty or all
\* whitespace has been rejected with "No text provided for analysis";
\* otherwise one of fewer than 5 whitespace-delimited words with "Text is too
\* short for meaningful analysis"; otherwise one longer than 50,000
\* characters with "Text is too long. Please limit to 50,000 characters or
\* less."; and an input that fails none of the three checks is not rejected
\* with any of the three messages.
ValidationInFixedOrder ==
  an_pc \in {"summary", "done"} =>
    LET expected == FirstFailingCheck(an_inputText)
    IN IF expected # ""
       THEN an_result = Failure(expected)
       ELSE an_result.error \notin ValidationErrors

\* an input over the length limit with too few words was rejected for its
\* words
TooShortBeforeTooLong ==
  /\ an_pc = "done"
  /\ Len(an_inputText) > 50000
  /\ ~AllWhitespace(an_inputText)
  /\ an_result = Failure(E_TooShort)

IsRepeatedCharacter(t) ==
  /\ Len(t) = RepeatCount
  /\ \A i \in 1..Len(t) : t[i] = t[1]

\* C2, as the program has it: an input of 60,000 repetitions of one
\* character is rejected, with "No text provided for analysis" when the
\* character is whitespace and with "Text is too short for meaningful
\* analysis" when it is not (the run is a single word); it is never rejected
\* with the length-limit message.
RepeatedCharacterRejectedBeforeLength ==
  (an_pc = "done" /\ IsRepeatedCharacter(an_inputText)) =>
    an_result = Failure(IF IsWhitespace(an_inputText[1])
                        THEN E_NoText ELSE E_TooShort)

\* C2, as the specification states it: an input of 60,000 repetitions of one
\* character is rejected with the length-limit message.
RepeatedCharacterRejectedForLength ==
  (an_pc = "done" /\ IsRepeatedCharacter(an_inputText)) =>
    an_result = Failure(E_TooLong)

RepeatedLetterRejectedAsTooShort ==
  /\ an_pc = "done"
  /\ IsRepeatedCharacter(an_inputText)
  /\ an_inputText[1] = "a"
  /\ an_result = Failure(E_TooShort)

\* C3: whatever the outcomes of the summary call and of the extraction
\* calls, analyzeText returns success=true for every input that passes
\* validation.
ValidInputAlwaysSucceeds ==
  (an_result.returned /\ an_result.error \notin ValidationErrors) =>
    an_result.success

\* C4: without credentials every call throws and none issues a request, and
\* for every input that passes validation analyzeText returns success=true
\* with the summary "Unable to generate summary", a document whose
\* metadata.analysis_method is "fallback_rule_based" and a fields list that
\* contains "content_analysis.word_count".
NoCredentialsFallsBack ==
  ~an_credentials =>
    /\ \A k \in 1..Len(an_requests) :
         an_requests[k].threw /\ ~an_requests[k].fetched
    /\ (an_result.returned /\ an_result.error \notin ValidationErrors) =>
         /\ an_result.success
         /\ an_result.summary = <<"U", "n", "a", "b", "l", "e", " ", "t", "o", " ", "g", "e", "n", "e", "r", "a", "t", "e", " ", "s", "u", "m", "m", "a", "r", "y">>
         /\ member(member(an_result.data, <<"m", "e", "t", "a", "d", "a", "t", "a">>), <<"a", "n", "a", "l", "y", "s", "i", "s", "_", "m", "e", "t", "h", "o", "d">>)
              = JStr(<<"f", "a", "l", "l", "b", "a", "c", "k", "_", "r", "u", "l", "e", "_", "b", "a", "s", "e", "d">>)
         /\ \E k \in 1..Len(an_result.fields) :
              an_result.fields[k] = <<"c", "o", "n", "t", "e", "n", "t", "_", "a", "n", "a", "l", "y", "s", "i", "s", ".", "w", "o", "r", "d", "_", "c", "o", "u", "n", "t">>

\* the narrative went through without credentials: one summary call and one
\* extraction call, both thrown
NarrativeWithoutCredentials ==
  /\ an_pc = "done"
  /\ ~an_credentials
  /\ an_inputText = NarrativeText
  /\ Len(an_requests) = 2
  /\ an_result.success

\* ------------------------------------------------------------------------
\* Properties of mergeAnalysisResults (SpecMerge)
\* ------------------------------------------------------------------------

IsScalar(v) == v.k \in {"string", "number", "boolean"}

\* C5: a key that target has with a string, a number or a boolean keeps its
\* value through the merge, whatever source has at that key.
ScalarNeverOverwritten ==
  mg_pc = "done" =>
    \A k \in 1..Len(mg_target0.p) :
      IsScalar(mg_target0.p[k].val) =>
        Get(mg_target, mg_target0.p[k].key) = mg_target0.p[k].val

\* the elements of a sequence without those whose serialization equals that
\* of an earlier element
FirstOccurrences(elems) ==
  SelectSeq(<<>> \o [k \in 1..Len(elems) |-> <<k, elems[k]>>],
            LAMBDA q : \A j \in 1..(q[1] - 1) :
                         stringify(elems[j]) # stringify(q[2]))

ElementsOf(pairs) == [k \in 1..Len(pairs) |-> pairs[k][2]]

Scenario5Merged ==
  JObj(<<Prop(<<"a">>, JArr(<<JNum(1), JNum(2), JNum(3)>>)),
         Prop(<<"b">>, JStr(<<"x">>)), Prop(<<"c">>, JNum(5))>>)

\* C6: where target and source both have a sequence at a key, target ends
\* with its own elements followed by source's, without the elements whose
\* serialization equals that of an earlier one; and merging
\* {"a":[1,2],"b":"x"} with {"a":[2,3],"b":"y","c":5} gives
\* {"a":[1,2,3],"b":"x","c":5}.
SequencesConcatenatedWithoutDuplicates ==
  mg_pc = "done" =>
    /\ \A k \in 1..Len(mg_source.p) :
         LET key == mg_source.p[k].key
             tv == Get(mg_target0, key)
             sv == mg_source.p[k].val
         IN (isArray(tv) /\ isArray(sv)) =>
              /\ isArray(Get(mg_target, key))
              /\ Get(mg_target, key).e = ElementsOf(FirstOccurrences(tv.e \o sv.e))
    /\ (mg_target0 = Doc1 /\ mg_source = Doc2) => mg_target = Scenario5Merged

Scenario5Reached ==
  /\ mg_pc = "done"
  /\ mg_target0 = Doc1
  /\ mg_source = Doc2
  /\ mg_target = Scenario5Merged

\* ------------------------------------------------------------------------
\* Properties of chunkText (SpecChunk)
\* ------------------------------------------------------------------------

\* C7: the slices cut are contiguous and do not overlap, the first starts at
\* 0 and the last ends at text.length, and their concatenation is the text.
SlicesReconstructText ==
  ck_pc = "done" =>
    /\ Len(ck_slices) >= 1
    /\ ck_slices[1][1] = 0
    /\ ck_slices[Len(ck_slices)][2] = Len(ck_text)
    /\ \A k \in 1..Len(ck_slices) : ck_slices[k][1] <= ck_slices[k][2]
    /\ \A k \in 1..(Len(ck_slices) - 1) : ck_slices[k][2] = ck_slices[k + 1][1]
    /\ Concat([k \in 1..Len(ck_slices) |->
                 SubSeq(ck_text, ck_slices[k][1] + 1, ck_slices[k][2])]) = ck_text

\* three slices or more, one of them cut at a break point
SeveralSlicesWithBreak ==
  /\ ck_pc = "done"
  /\ Len(ck_slices) >= 3
  /\ \E k \in 1..Len(ck_breaks) : ck_breaks[k]

\* C8, as the program has it: a text no longer than maxSize comes back as
\* exactly one chunk, which is the text itself, its leading and trailing
\* whitespace included.
ShortTextIsOneUntrimmedChunk ==
  (ck_pc = "done" /\ Len(ck_text) <= ck_max) => ck_chunks = <<ck_text>>

\* C8, as the specification states it: a text no longer than maxSize comes
\* back as exactly one chunk, which is the trimmed text.
ShortTextIsOneTrimmedChunk ==
  (ck_pc = "done" /\ Len(ck_text) <= ck_max) => ck_chunks = <<trim(ck_text)>>

ShortTextWithOuterWhitespace ==
  /\ ck_pc = "done"
  /\ Len(ck_text) <= ck_max
  /\ trim(ck_text) # ck_text
  /\ Len(ck_chunks) = 1

\* C9: no chunk is longer than maxSize.
NoChunkExceedsMaxSize ==
  ck_pc = "done" =>
    \A k \in 1..Len(ck_chunks) : Len(ck_chunks[k]) <= ck_max

\* ------------------------------------------------------------------------
\* Properties of detectContentType (SpecClassify)
\* ------------------------------------------------------------------------

Has(t, word) == includes(toLowerCase(t), word)

\* the number of the first predicate of the ordered list the text satisfies,
\* 10 when it satisfies none
FirstPredicate(t) ==
  CASE Has(t, <<"a", "b", "s", "t", "r", "a", "c", "t">>) /\ Has(t, <<"i", "n", "t", "r", "o", "d", "u", "c", "t", "i", "o", "n">>) /\ Has(t, <<"c", "o", "n", "c", "l", "u", "s", "i", "o", "n">>) -> 1
    [] Has(t, <<"i", "n", "g", "r", "e", "d", "i", "e", "n", "t", "s">>) /\ (Has(t, <<"r", "e", "c", "i", "p", "e">>) \/ Has(t, <<"i", "n", "s", "t", "r", "u", "c", "t", "i", "o", "n", "s">>)) -> 2
    [] Has(t, <<"e", "x", "p", "e", "r", "i", "e", "n", "c", "e">>) /\ Has(t, <<"e", "d", "u", "c", "a", "t", "i", "o", "n">>) /\ Has(t, <<"s", "k", "i", "l", "l", "s">>) -> 3
    [] (Has(t, <<"e", "m", "a", "i", "l">>) \/ Has(t, <<"@">>)) /\ Has(t, <<"p", "a", "s", "s", "w", "o", "r", "d">>) -> 4
    [] matchesDate(t) -> 5
    [] Has(t, <<"m", "e", "e", "t", "i", "n", "g">>) /\ (Has(t, <<"a", "g", "e", "n", "d", "a">>) \/ Has(t, <<"m", "i", "n", "u", "t", "e", "s">>)) -> 6
    [] splitLength(t, "\n") > 10 /\ Has(t, <<",">>) -> 7
    [] Has(t, <<"s", "t", "o", "r", "y">>) \/ Has(t, <<"c", "h", "a", "p", "t", "e", "r">>) \/ splitLength(t, ".") > 20 -> 8
    [] Has(t, <<"p", "r", "o", "d", "u", "c", "t">>) /\ (Has(t, <<"p", "r", "i", "c", "e">>) \/ Has(t, <<"f", "e", "a", "t", "u", "r", "e">>)) -> 9
    [] OTHER -> 10

LabelsInOrder ==
  <<<<"A", "c", "a", "d", "e", "m", "i", "c", " ", "P", "a", "p", "e", "r">>, <<"R", "e", "c", "i", "p", "e">>, <<"R", "e", "s", "u", "m", "e", "/", "C", "V">>, <<"C", "r", "e", "d", "e", "n", "t", "i", "a", "l", "s", " ", "L", "i", "s", "t">>,
    <<"D", "a", "t", "e", "-", "b", "a", "s", "e", "d", " ", "C", "o", "n", "t", "e", "n", "t">>, <<"M", "e", "e", "t", "i", "n", "g", " ", "N", "o", "t", "e", "s">>, <<"S", "t", "r", "u", "c", "t", "u", "r", "e", "d", " ", "D", "a", "t", "a">>,
    <<"N", "a", "r", "r", "a", "t", "i", "v", "e", "/", "S", "t", "o", "r", "y">>, <<"P", "r", "o", "d", "u", "c", "t", " ", "I", "n", "f", "o", "r", "m", "a", "t", "i", "o", "n">>, <<"G", "e", "n", "e", "r", "a", "l", " ", "T", "e", "x", "t">>>>

\* C10: the label returned is that of the first predicate of the ordered
\* list the text satisfies and "General Text" when it satisfies none, so it
\* is one of the ten labels; a text that satisfies both the Academic Paper
\* and the Recipe predicate is labelled Academic Paper.
FirstMatchingRuleWins ==
  dc_pc = "done" =>
    /\ dc_label = LabelsInOrder[FirstPredicate(dc_text)]
    /\ \E n \in 1..10 : dc_label = LabelsInOrder[n]
    /\ (isAcademicPaper(dc_text, toLowerCase(dc_text))
          /\ isRecipe(dc_text, toLowerCase(dc_text))) =>
         dc_label = <<"A", "c", "a", "d", "e", "m", "i", "c", " ", "P", "a", "p", "e", "r">>

AcademicAndRecipeText ==
  /\ dc_pc = "done"
  /\ Has(dc_text, <<"a", "b", "s", "t", "r", "a", "c", "t">>) /\ Has(dc_text, <<"i", "n", "t", "r", "o", "d", "u", "c", "t", "i", "o", "n">>)
  /\ Has(dc_text, <<"c", "o", "n", "c", "l", "u", "s", "i", "o", "n">>)
  /\ Has(dc_text, <<"i", "n", "g", "r", "e", "d", "i", "e", "n", "t", "s">>) /\ Has(dc_text, <<"r", "e", "c", "i", "p", "e">>)
  /\ dc_label = <<"A", "c", "a", "d", "e", "m", "i", "c", " ", "P", "a", "p", "e", "r">>

\* ------------------------------------------------------------------------
\* Properties of calculateConfidence (SpecConfidence)
\* ------------------------------------------------------------------------

\* a fallback document names "fallback" in metadata.analysis_method
IsFallbackDocument(data) ==
  LET am == member(member(data, S_metadata), S_analysis_method)
  IN \/ am.k = "string" /\ includes(am.s, <<"f", "a", "l", "l", "b", "a", "c", "k">>)
     \/ am.k = "array" /\ \E k \in 1..Len(am.e) : am.e[k] = JStr(<<"f", "a", "l", "l", "b", "a", "c", "k">>)

\* 0.5 plus the bonuses that fire, clamped, in hundredths
SumOfBonuses(data, originalText) ==
  clampConfidence(
    50 + keyCountBonus(data) + structureBonus(data)
       + ratioBonus(data, originalText)
       + (IF IsFallbackDocument(data) THEN 0 ELSE 20))

\* C11: for every document and every original text calculateConfidence
\* returns a value in [0.30, 0.95], equal to 0.5 plus the bonuses that fire,
\* clamped to that interval
ConfidenceInRangeForEveryDocument ==
  cf_pc = "done" =>
    /\ cf_result.k = "number"
    /\ cf_result.n \in 30..95
    /\ cf_result.n = SumOfBonuses(cf_data, cf_text)

\* ------------------------------------------------------------------------
\* Properties of extractFields (SpecFields)
\* ------------------------------------------------------------------------

RECURSIVE HasDottedKey(_)
HasDottedKey(value) ==
  /\ value.k = "object"
  /\ \E k \in 1..Len(value.p) :
       \/ includes(value.p[k].key, <<".">>)
       \/ HasDottedKey(value.p[k].val)

\* C12: extractFields never recurses from a prefix of 3 or more segments,
\* so when no key holds a "." the depth of the traversal is bounded however
\* deep the document nests (at most 4 calls are in progress: the outermost
\* one and one for each prefix of one, two and three segments), and no
\* sequence is descended into
RecursionBoundedForEveryDocument ==
  /\ \A prefix \in ef_from : splitLength(prefix, ".") < 3
  /\ ~HasDottedKey(ef_data) => Len(ef_stack) <= 4
  /\ \A k \in 1..Len(ef_stack) : ef_stack[k].data.k = "object"

\* ------------------------------------------------------------------------
\* Properties of analyzeTextWithAI (Spec)
\* ------------------------------------------------------------------------

\* the document analyzeTextWithAI returned is there
ExtractorReturned ==
  \/ an_pc = "confidence"
  \/ an_pc = "done" /\ an_result.error \notin ValidationErrors

\* the request for chunk 0 left a non-empty object in the accumulator and
\* the call for chunk 1 threw
ChunkOneCallFailed ==
  /\ Len(an_requests) = 3
  /\ an_requests[2].kind = "extract" /\ an_requests[2].chunkNo = 0
  /\ an_requests[2].after.k = "object" /\ hasKeys(an_requests[2].after)
  /\ an_requests[3].kind = "extract" /\ an_requests[3].chunkNo = 1
  /\ an_requests[3].threw

\* C13: when chunk 0 yields a non-empty object and the call for chunk 1
\* throws, analyzeTextWithAI returns chunk 0's document
FailedChunkIsSkipped ==
  (ExtractorReturned /\ ChunkOneCallFailed) =>
    an_structuredData = an_requests[2].after

\* ------------------------------------------------------------------------
\* Properties of one response (SpecResponse)
\* ------------------------------------------------------------------------

\* strict parsing of the response failed and the text between the braces
\* parsed
OnlyBracesParsed ==
  /\ truthy(resultResponse(rs_outcome.data))
  /\ rs_outcome.strict = SyntaxError
  /\ rs_outcome.braces.k = "object"

\* C14: for chunk 0 and chunk 1 alike, when strict parsing fails and the
\* text between the first "{" and the last "}" parses, the parsed object
\* becomes the accumulator (chunk 0) or is merged into it (chunk 1)
ExtractedObjectEntersAccumulator ==
  (rs_pc = "done" /\ OnlyBracesParsed) =>
    rs_after = IF rs_i = 0 THEN rs_outcome.braces
               ELSE mergeAnalysisResults(rs_combinedAnalysis, rs_outcome.braces)

\* C15: the requests of one run are issued one after another in a fixed
\* order: one summary request first, then the request for chunk 0 and, once
\* its result is in the accumulator, the request for chunk 1; no later chunk
\* and no failed request causes another one, so there are at most 3
RequestsInFixedOrder ==
  /\ Len(an_requests) <= 3
  /\ \A k \in 1..Len(an_requests) :
       /\ an_requests[k].kind = IF k = 1 THEN "summary" ELSE "extract"
       /\ k >= 2 => an_requests[k].chunkNo = k - 2
  /\ (an_pc \in {"extract", "loop", "catch", "confidence"}) => Len(an_requests) >= 1
  /\ (an_result.returned /\ an_result.error \notin ValidationErrors) =>
       Len(an_requests) >= 1
  /\ (an_result.returned /\ an_result.error \in ValidationErrors) =>
       Len(an_requests) = 0
  /\ Len(an_requests) = 3 => an_requests[2].after # Threw
  /\ (an_pc = "loop" /\ an_i >= 1) =>
       /\ Len(an_requests) = an_i + 1
       /\ an_combinedAnalysis = an_requests[an_i + 1].after

\* a text of three chunks after the requests for its first two
ThirdChunkNotRequested ==
  /\ an_pc = "loop"
  /\ Len(an_chunks) = 3
  /\ an_i = 2
  /\ Len(an_requests) = 3

\* ------------------------------------------------------------------------
\* More properties of mergeAnalysisResults (SpecMerge)
\* ------------------------------------------------------------------------

IsNestedDocument(v) == v.k = "object"

\* C16: where one of target and source has a sequence at a key and the
\* other a nested document, no recursive merge happens: target keeps its
\* value at that key, with no index key and no document key copied into it
NoMergeAcrossKinds ==
  mg_pc = "done" =>
    \A k \in 1..Len(mg_source.p) :
      LET key == mg_source.p[k].key
          tv == Get(mg_target0, key)
          sv == mg_source.p[k].val
      IN (\/ isArray(tv) /\ IsNestedDocument(sv)
          \/ IsNestedDocument(tv) /\ isArray(sv)) =>
           Get(mg_target, key) = tv

\* the accumulator was empty after the processed chunks
AccumulatorEmpty ==
  LET last == an_requests[Len(an_requests)]
  IN /\ an_requests # <<>>
     /\ last.kind = "extract" =>
          (last.after # Threw /\ Len(ownKeys(last.after)) = 0)

\* the time fallbackAnalysis recorded in a document
TimestampOf(document) ==
  member(member(document, S_metadata), <<"p", "r", "o", "c", "e", "s", "s", "i", "n", "g", "_", "t", "i", "m", "e", "s", "t", "a", "m", "p">>).s

\* C17: analyzeTextWithAI always returns a document to its caller, and
\* when the accumulator is empty after the processed chunks the document is
\* the one fallbackAnalysis(text, contentType) produces, with
\* metadata.analysis_method "fallback_rule_based" and content_type_detected
\* the label of the classifier
EmptyAccumulatorFallsBack ==
  /\ ExtractorReturned => isObjectNotNull(an_structuredData)
  /\ (an_pc = "confidence" /\ AccumulatorEmpty) =>
       /\ an_structuredData =
            fallbackAnalysis(an_inputText, an_contentType,
                             TimestampOf(an_structuredData))
       /\ member(member(an_structuredData, S_metadata), S_analysis_method)
            = JStr(S_fallback_rule_based)
       /\ member(member(an_structuredData, S_metadata), S_content_type_detected)
            = JStr(an_contentType)
       /\ an_contentType = detectContentType(an_inputText)

\* both chunks were answered and neither left a key in the accumulator
TwoChunksLeftNothing ==
  /\ an_pc = "confidence"
  /\ Len(an_requests) = 3
  /\ ~an_requests[3].threw
  /\ AccumulatorEmpty

\* ------------------------------------------------------------------------
\* Properties of chunkText (SpecChunkLive)
\* ------------------------------------------------------------------------

\* C18: chunkText terminates for every text and every maxSize >= 1: each
\* iteration of the loop, cutting hard or at a break point, leaves
\* startIndex strictly greater than it was, and the call returns
ChunkTextTerminates ==
  /\ [][ChunkIterate => ck_startIndex' > ck_startIndex]_vars
  /\ <>(ck_pc = "done")

\* a call that cut once at a break point and once hard, and returned
CutBothWaysAndReturned ==
  /\ ck_pc = "done"
  /\ \E i, j \in 1..Len(ck_breaks) : ck_breaks[i] /\ ~ck_breaks[j]
  /\ ck_startIndex >= Len(ck_text)

\* ------------------------------------------------------------------------
\* More properties of analyzeText (Spec)
\* ------------------------------------------------------------------------

\* C19: whenever analyzeText returns success, data.data is a non-empty
\* mapping from string keys to values, never a sequence or a scalar,
\* whatever the service answered for each chunk, and data.fields is not
\* empty
SuccessCarriesNonEmptyMapping ==
  an_result.success =>
    /\ an_result.data.k = "object"
    /\ Len(ownKeys(an_result.data)) > 0
    /\ Len(an_result.fields) > 0

====
